---- MODULE Spec2Model ----
(***************************************************************************)
(* Verification model of the NexusCRM migration tools.                     *)
(*                                                                         *)
(*   SpecRun  Importer.run of scripts/migration/import_salesforce.py:      *)
(*            checkpointed streaming of one CSV file, worker pool,         *)
(*            cooperative shutdown, process kill and re-run.               *)
(*   SpecReq  NexusClient.request: the retry loop of one worker's client   *)
(*            (migration_tool/client.py and import_salesforce.py).         *)
(*   SpecCsv  _process_csv / process_file of migration_tool and            *)
(*            migration_csv_tool: reconcile, batch sizing, streaming,      *)
(*            draining.                                                    *)
(*   SpecSchema  SchemaManager.ensure_object / ensure_fields of two        *)
(*            importers working on the same object of one backend.         *)
(*   SpecHeal  Importer._handle_bulk_error: downgrade of a field whose     *)
(*            type the rows do not fit, by the threads of the pool.        *)
(*   SpecStats  ImportStatistics.update called by the threads of the pool. *)
(*   SpecMain  main of import_salesforce.py and of migration_csv_tool:     *)
(*            signal, exception and the final summary.                     *)
(*   SpecInfer  SchemaManager.infer_type of both tools on bounded samples. *)
(*   SpecCsvNames  the streaming of SpecCsv on files with and without a    *)
(*            name column.                                                 *)
(*   SpecSample  the sampling of the source file by _process_csv.          *)
(*   SpecKeys  ensure_fields and the records of process_file of            *)
(*            migration_csv_tool on headers of about 63 characters.        *)
(*                                                                         *)
(* Each specification moves its own variables and leaves the others of     *)
(* the module unchanged.                                                   *)
(***************************************************************************)
EXTENDS Integers, Sequences, FiniteSets

(***************************************************************************)
(* Bounds of the model.                                                    *)
(***************************************************************************)
MaxRows == 8          \* data rows of the source file of SpecRun: 0..MaxRows
MaxRuns == 2          \* process invocations of the importer on the same file
Concurrency == 2      \* worker threads of a pool (the --concurrency input)
MaxRequests == 2      \* requests one worker makes in SpecReq
MaxCsvRows == 2       \* data rows of the source file of SpecCsv: 0..MaxCsvRows
MaxBatchArg == 3      \* configured --batch-size of SpecCsv: 1..MaxBatchArg
MaxErrors == 2        \* row errors one worker thread handles in SpecHeal
MaxUpdates == 3       \* batches the pool threads complete in SpecStats
MaxBatches == 2       \* batches the main thread submits in SpecMain
MaxSampleRows == 5    \* data rows of the source file of SpecSample
MaxLineBytes == 2     \* bytes of a line of that file: 1..MaxLineBytes
MaxLimit == 6          \* --sample-size of SpecSample: 0..MaxLimit
MaxColumns == 2       \* columns of the source file of SpecKeys

(***************************************************************************)
(* Program constants of Importer.run.  The code submits a chunk every 50   *)
(* selected rows and writes the checkpoint every 5000 rows read; the model *)
(* scales both down and keeps what the code relies on: the checkpoint      *)
(* interval is a multiple of the chunk length.                             *)
(***************************************************************************)
CHUNK_ROWS == 2             \* import_salesforce.py:795  (len(batch) >= 50)
CHECKPOINT_EVERY == 4       \* import_salesforce.py:801  (% 5000 == 0)

NoFile == -1                \* the checkpoint file does not exist

VARIABLES
    \* ---- SpecRun: Importer.run ----
    nrows,                \* number of data rows of the CSV file
    runNo,                \* which invocation of the process this is
    run_pc,               \* position of the main thread in Importer.run
    ckptFile,             \* content of .<obj>.checkpoint, or NoFile
    start_row,            \* ckpt.read() of this run
    current_row_index,    \* rows read so far by the streaming loop
    batch,                \* rows accumulated, not yet submitted
    futures,              \* submitted chunks, in submission order
    shutdown_requested,   \* the global flag set by signal_handler
    imported,             \* rows the backend has stored, over all runs
    ckptBefore,           \* history: the checkpoint value when this run began
    ckptRemoved,          \* history: this run's ckpt.clear() removed the file
    ended,                \* history: how the earlier runs ended
    sawShutdown,          \* history: some run received the shutdown signal
    sawReject,            \* history: some bulk request came back as an error
    submittedAtStop,      \* history: chunks submitted when this run was signalled
    \* ---- SpecReq: NexusClient.request ----
    client,               \* "tool": migration_tool/client.py, "sf": import_salesforce.py
    reqNo,                \* number of the worker's current request
    req_pc,               \* "calling" inside request(), "returned" after it
    attempt,              \* the loop variable of `for attempt in range(retries + 1)`
    conn,                 \* self._local.conn: 0 when the attribute is absent
    nextConn,             \* identity of the next connection object created
    sleeps,               \* time.sleep calls of the current request
    backoff,              \* the local backoff of the current request
    history,              \* outcome of each attempt of the current request
    usedConn,             \* connection each attempt of the current request ran on
    result,               \* what request() returned: "data", "error", or "none"
    failedConns,          \* history: connections on which an attempt has failed
    \* ---- SpecCsv: _process_csv ----
    csv_hasHeader,        \* FALSE: the file is empty (no header line)
    csv_headers,          \* the named header cells, in order
    csv_pad,              \* number of further header cells that are blank
    csv_file,             \* the data rows: each the set of columns with a value
    args_batch_size,      \* args.batch_size
    csv_pc,               \* position of the main thread in _process_csv
    csv_log,              \* requests issued for this source, in order
    csv_obj_get,          \* outcome of ensure_object's GET:  "none", "ok", "err"
    csv_obj_post,         \* outcome of ensure_object's POST: "none", "ok", "err"
    csv_typed_map,        \* typed_map returned by ensure_fields
    csv_batch_size,       \* the computed batch_size
    csv_pos,              \* data rows consumed by the streaming loop
    csv_batch,            \* records accumulated, not yet submitted
    csv_futures,          \* submitted batches, in submission order
    csv_shutdown,         \* what shutdown_signal() returns
    csv_stopped,          \* the streaming loop has seen the signal and left
    stats,                \* ImportStatistics: total_rows, success_count, error_count
    \* ---- SpecSchema: SchemaManager against the metadata API ----
    sch_objects,          \* backend: api names of the objects created, in order
    sch_fields,           \* backend: [api, type] of the fields created, in order
    sch_rejectTypes,      \* backend: the field types its validation refuses
    sch_types,            \* type_name that infer_type gave each column
    sch_imp,              \* per importer: position, ensure_object's requests and result
    sch_task,             \* per importer and column: the _create_field_safe call
    sch_time,             \* requests answered by the backend so far
    sch_calls,            \* history: the calls that have returned
    \* ---- SpecHeal: Importer._handle_bulk_error on the worker threads ----
    heal_w,               \* per worker thread: position, errors still to handle, loaded counter
    corrected_fields,     \* Importer.corrected_fields
    heal_stats,           \* stats.corrected_fields and stats.auto_corrections
    heal_patches,         \* history: PATCH requests issued per field
    heal_seen,            \* history: type-mismatch errors handled per field
    \* ---- SpecStats: ImportStatistics.update called by the pool threads ----
    st_lock,              \* ImportStatistics._lock: the thread that holds it, 0 when free
    st_stats,             \* the shared total_rows, success_count, error_count
    st_w,                 \* per pool thread: position in update, its arguments, the loaded value
    st_sum,               \* history: the update calls made and the sums of their arguments
    \* ---- SpecMain: main() of import_salesforce.py and of migration_csv_tool ----
    main_tool,            \* "sf": import_salesforce.py, "csv": migration_csv_tool/main.py
    main_pc,              \* position of the main thread in main()
    main_shutdown,        \* the global shutdown_requested set by signal_handler
    main_futures,         \* the batches submitted to the pool, in order
    main_stats,           \* the global stats: total_rows, success_count, error_count
    main_printed,         \* what print_summary has written, if it was called
    \* ---- SpecInfer: SchemaManager.infer_type ----
    inf_impl,             \* "csv_tool": migration_csv_tool/schema.py, "tool": migration_tool/schema.py
    inf_name,             \* field_name, as the sequence of its characters
    inf_samples,          \* sample_values
    inf_pc,               \* "call" before infer_type has run, "returned" after
    inf_result,           \* the (TypeName, ExtraParams) returned
    \* ---- SpecSample: distributed sampling of _process_csv / process_file ----
    smp_file,             \* the source file: the byte length of each of its lines, the header first
    smp_limit,            \* args.sample_size
    smp_pc,               \* "open", "chunk" (top of the chunk loop), "read" (in the row loop), "done", "returned"
    smp_chunk,            \* i of `for i in range(NUM_CHUNKS)`
    smp_in_chunk,         \* rows_read_in_chunk
    smp_next,             \* the line the file position is at (Len + 1: end of file)
    smp_rows,             \* sample_rows, each row as the number of its line
    smp_err,              \* an exception ended the sampling (line 165)
    \* ---- SpecKeys: ensure_fields and process_file on long headers ----
    key_headers,          \* the header row of the file, each header a sequence of characters
    key_kinds,            \* what each column holds (its sample values and its cell of the data row)
    key_pc,               \* position of process_file
    key_typed_map,        \* typed_map = mgr.ensure_fields(...): col_name -> type
    key_todo,             \* fields_to_create of ensure_fields
    key_done,             \* indexes of fields_to_create whose _create_field_safe has run
    key_requests,         \* payloads of the POST create-field requests issued
    key_batch,            \* batch of process_file
    key_sent              \* records of the bulk requests submitted

runVars == <<nrows, runNo, run_pc, ckptFile, start_row, current_row_index,
             batch, futures, shutdown_requested, imported, ckptBefore,
             ckptRemoved, ended, sawShutdown, sawReject, submittedAtStop>>

reqVars == <<client, reqNo, req_pc, attempt, conn, nextConn, sleeps, backoff,
             history, usedConn, result, failedConns>>

csvVars == <<csv_hasHeader, csv_headers, csv_pad, csv_file, args_batch_size,
             csv_pc, csv_log, csv_obj_get, csv_obj_post, csv_typed_map,
             csv_batch_size, csv_pos, csv_batch, csv_futures, csv_shutdown,
             csv_stopped, stats>>

schVars == <<sch_objects, sch_fields, sch_rejectTypes, sch_types, sch_imp,
             sch_task, sch_time, sch_calls>>

healVars == <<heal_w, corrected_fields, heal_stats, heal_patches, heal_seen>>

statsVars == <<st_lock, st_stats, st_w, st_sum>>

mainVars == <<main_tool, main_pc, main_shutdown, main_futures, main_stats, main_printed>>

inferVars == <<inf_impl, inf_name, inf_samples, inf_pc, inf_result>>

sampleVars == <<smp_file, smp_limit, smp_pc, smp_chunk, smp_in_chunk, smp_next, smp_rows, smp_err>>

keyVars == <<key_headers, key_kinds, key_pc, key_typed_map, key_todo, key_done, key_requests, key_batch, key_sent>>

vars == <<runVars, reqVars, csvVars, schVars, healVars, statsVars, mainVars, inferVars, sampleVars, keyVars>>

\* the variables a specification leaves alone
notRunVars == <<reqVars, csvVars, schVars, healVars, statsVars, mainVars, inferVars, sampleVars, keyVars>>
notReqVars == <<runVars, csvVars, schVars, healVars, statsVars, mainVars, inferVars, sampleVars, keyVars>>
notCsvVars == <<runVars, reqVars, schVars, healVars, statsVars, mainVars, inferVars, sampleVars, keyVars>>
notSchVars == <<runVars, reqVars, csvVars, healVars, statsVars, mainVars, inferVars, sampleVars, keyVars>>
notHealVars == <<runVars, reqVars, csvVars, schVars, statsVars, mainVars, inferVars, sampleVars, keyVars>>
notStatsVars == <<runVars, reqVars, csvVars, schVars, healVars, mainVars, inferVars, sampleVars, keyVars>>
notMainVars == <<runVars, reqVars, csvVars, schVars, healVars, statsVars, inferVars, sampleVars, keyVars>>
notInferVars == <<runVars, reqVars, csvVars, schVars, healVars, statsVars, mainVars, sampleVars, keyVars>>
notSampleVars == <<runVars, reqVars, csvVars, schVars, healVars, statsVars, mainVars, inferVars, keyVars>>
notKeyVars == <<runVars, reqVars, csvVars, schVars, healVars, statsVars, mainVars, inferVars, sampleVars>>

(***************************************************************************)
(* The variables of a component that a specification does not exercise     *)
(* rest at these values.                                                   *)
(***************************************************************************)
RunAtRest ==
    /\ nrows = 0 /\ runNo = 1 /\ run_pc = "rest" /\ ckptFile = NoFile
    /\ start_row = 0 /\ current_row_index = 0 /\ batch = <<>>
    /\ futures = <<>> /\ shutdown_requested = FALSE /\ imported = {}
    /\ ckptBefore = 0 /\ ckptRemoved = FALSE /\ ended = <<>>
    /\ sawShutdown = FALSE /\ sawReject = FALSE /\ submittedAtStop = 0

ReqAtRest ==
    /\ client = "tool" /\ reqNo = 0 /\ req_pc = "rest" /\ attempt = 0
    /\ conn = 0 /\ nextConn = 1 /\ sleeps = 0 /\ backoff = 1
    /\ history = <<>> /\ usedConn = <<>> /\ result = "none"
    /\ failedConns = {}

CsvAtRest ==
    /\ csv_hasHeader = FALSE /\ csv_headers = <<>> /\ csv_pad = 0
    /\ csv_file = <<>> /\ args_batch_size = 1 /\ csv_pc = "rest"
    /\ csv_log = <<>> /\ csv_obj_get = "none" /\ csv_obj_post = "none"
    /\ csv_typed_map = <<>> /\ csv_batch_size = 0 /\ csv_pos = 0
    /\ csv_batch = <<>> /\ csv_futures = <<>> /\ csv_shutdown = FALSE
    /\ csv_stopped = FALSE
    /\ stats = [total_rows |-> 0, success_count |-> 0, error_count |-> 0]

SchAtRest ==
    /\ sch_objects = <<>> /\ sch_fields = <<>> /\ sch_rejectTypes = {}
    /\ sch_types = <<>> /\ sch_imp = <<>> /\ sch_task = <<>>
    /\ sch_time = 0 /\ sch_calls = {}

HealAtRest ==
    /\ heal_w = <<>>
    /\ corrected_fields = {}
    /\ heal_stats = [corrected_fields |-> {}, auto_corrections |-> 0]
    /\ heal_patches = <<>>
    /\ heal_seen = <<>>

StatsAtRest ==
    /\ st_lock = 0
    /\ st_stats = [total_rows |-> 0, success_count |-> 0, error_count |-> 0]
    /\ st_w = <<>>
    /\ st_sum = [calls |-> 0, sums |-> [total_rows |-> 0, success_count |-> 0, error_count |-> 0]]

MainAtRest ==
    /\ main_tool = "sf"
    /\ main_pc = "rest"
    /\ main_shutdown = FALSE
    /\ main_futures = <<>>
    /\ main_stats = [total_rows |-> 0, success_count |-> 0, error_count |-> 0]
    /\ main_printed = [done |-> FALSE, total_rows |-> 0, success_count |-> 0, error_count |-> 0]

InferAtRest ==
    /\ inf_impl = "tool"
    /\ inf_name = <<>>
    /\ inf_samples = <<>>
    /\ inf_pc = "rest"
    /\ inf_result = [type |-> "", target |-> <<>>]

SampleAtRest ==
    /\ smp_file = <<>>
    /\ smp_limit = 0
    /\ smp_pc = "rest"
    /\ smp_chunk = 0
    /\ smp_in_chunk = 0
    /\ smp_next = 0
    /\ smp_rows = <<>>
    /\ smp_err = FALSE

KeyAtRest ==
    /\ key_headers = <<>>
    /\ key_kinds = <<>>
    /\ key_pc = "rest"
    /\ key_typed_map = <<>>
    /\ key_todo = <<>>
    /\ key_done = {}
    /\ key_requests = {}
    /\ key_batch = <<>>
    /\ key_sent = <<>>

NotRunAtRest == ReqAtRest /\ CsvAtRest /\ SchAtRest /\ HealAtRest /\ StatsAtRest /\ MainAtRest /\ InferAtRest /\ SampleAtRest /\ KeyAtRest
NotReqAtRest == RunAtRest /\ CsvAtRest /\ SchAtRest /\ HealAtRest /\ StatsAtRest /\ MainAtRest /\ InferAtRest /\ SampleAtRest /\ KeyAtRest
NotCsvAtRest == RunAtRest /\ ReqAtRest /\ SchAtRest /\ HealAtRest /\ StatsAtRest /\ MainAtRest /\ InferAtRest /\ SampleAtRest /\ KeyAtRest
NotSchAtRest == RunAtRest /\ ReqAtRest /\ CsvAtRest /\ HealAtRest /\ StatsAtRest /\ MainAtRest /\ InferAtRest /\ SampleAtRest /\ KeyAtRest
NotHealAtRest == RunAtRest /\ ReqAtRest /\ CsvAtRest /\ SchAtRest /\ StatsAtRest /\ MainAtRest /\ InferAtRest /\ SampleAtRest /\ KeyAtRest
NotStatsAtRest == RunAtRest /\ ReqAtRest /\ CsvAtRest /\ SchAtRest /\ HealAtRest /\ MainAtRest /\ InferAtRest /\ SampleAtRest /\ KeyAtRest
NotMainAtRest == RunAtRest /\ ReqAtRest /\ CsvAtRest /\ SchAtRest /\ HealAtRest /\ StatsAtRest /\ InferAtRest /\ SampleAtRest /\ KeyAtRest
NotInferAtRest == RunAtRest /\ ReqAtRest /\ CsvAtRest /\ SchAtRest /\ HealAtRest /\ StatsAtRest /\ MainAtRest /\ SampleAtRest /\ KeyAtRest
NotSampleAtRest == RunAtRest /\ ReqAtRest /\ CsvAtRest /\ SchAtRest /\ HealAtRest /\ StatsAtRest /\ MainAtRest /\ InferAtRest /\ KeyAtRest
NotKeyAtRest == RunAtRest /\ ReqAtRest /\ CsvAtRest /\ SchAtRest /\ HealAtRest /\ StatsAtRest /\ MainAtRest /\ InferAtRest /\ SampleAtRest

(***************************************************************************)
(* Helpers.                                                                *)
(***************************************************************************)
Min(a, b) == IF a <= b THEN a ELSE b

Range(s) == {s[i] : i \in DOMAIN s}

RECURSIVE Flatten(_)
Flatten(ss) == IF ss = <<>> THEN <<>> ELSE Head(ss) \o Flatten(Tail(ss))

(***************************************************************************)
(* CheckpointManager (import_salesforce.py:388-407).                       *)
(***************************************************************************)
\* read(): the integer in the file, 0 when the file does not exist
CheckpointRead == IF ckptFile = NoFile THEN 0 ELSE ckptFile

\* write(count): the file holds count
CheckpointWrite(count) == count

\* clear(): the file is removed when it exists
CheckpointClear == NoFile

(***************************************************************************)
(* Importer.run, streaming loop (import_salesforce.py:785-808).            *)
(***************************************************************************)
\* line 793: a row is placed in the batch only from the resume offset on
RowSelected_AlwaysTrue(idx, start) == TRUE
RowSelected(idx, start) == idx >= start

\* line 795: the batch is submitted when it has reached the chunk length
ChunkFull(b) == Len(b) >= CHUNK_ROWS

\* line 801: the periodic checkpoint condition, tested after the increment
CheckpointDue(idx) == idx % CHECKPOINT_EVERY = 0

\* submit_batch (777-779): a future for the chunk, queued on the executor
NewFuture(rows) == [rows |-> rows, st |-> "queued", sent |-> FALSE,
                    s |-> 0, e |-> 0]

Running == {i \in DOMAIN futures : futures[i].st = "running"}
Queued == {i \in DOMAIN futures : futures[i].st = "queued"}
AllDone == \A i \in DOMAIN futures : futures[i].st = "done"

InitRun ==
    /\ nrows \in 0..MaxRows
    /\ runNo = 1
    /\ run_pc = "start"
    /\ ckptFile = NoFile
    /\ start_row = 0
    /\ current_row_index = 0
    /\ batch = <<>>
    /\ futures = <<>>
    /\ shutdown_requested = FALSE
    /\ imported = {}
    /\ ckptBefore = 0
    /\ ckptRemoved = FALSE
    /\ ended = <<>>
    /\ sawShutdown = FALSE
    /\ sawReject = FALSE
    /\ submittedAtStop = 0
    /\ NotRunAtRest

\* run(), lines 616-765: header and first row are read (a file without data
\* rows returns at once), ensure_object is called (failure returns), the
\* fields are created, and the checkpoint is read.
Reconcile(objOk) ==
    /\ run_pc = "start"
    /\ IF nrows = 0
         THEN /\ run_pc' = "skipped"
              /\ UNCHANGED start_row
         ELSE IF ~objOk
                THEN /\ run_pc' = "aborted"
                     /\ UNCHANGED start_row
                ELSE /\ run_pc' = "stream"
                     /\ start_row' = CheckpointRead
    /\ UNCHANGED <<submittedAtStop, nrows, runNo, ckptFile, current_row_index, batch, futures,
                   shutdown_requested, imported, ckptBefore, ckptRemoved,
                   ended, sawShutdown, sawReject>>
    /\ UNCHANGED notRunVars

\* one iteration of `for row in reader` (lines 792-805)
ReadRow ==
    /\ run_pc = "stream"
    /\ current_row_index < nrows
    /\ LET row == current_row_index
           b1  == IF RowSelected(current_row_index, start_row)
                    THEN Append(batch, row) ELSE batch
           sub == RowSelected(current_row_index, start_row) /\ ChunkFull(b1)
           idx == current_row_index + 1
       IN /\ batch' = IF sub THEN <<>> ELSE b1
          /\ futures' = IF sub THEN Append(futures, NewFuture(b1)) ELSE futures
          /\ current_row_index' = idx
          /\ ckptFile' = IF CheckpointDue(idx) THEN CheckpointWrite(idx)
                                               ELSE ckptFile
    /\ UNCHANGED <<submittedAtStop, nrows, runNo, run_pc, start_row, shutdown_requested,
                   imported, ckptBefore, ckptRemoved, ended, sawShutdown,
                   sawReject>>
    /\ UNCHANGED notRunVars

\* the reader is exhausted: the rest of the batch is submitted (807-808) and
\* the main thread enters the as_completed loop (814)
EndOfFile ==
    /\ run_pc = "stream"
    /\ current_row_index = nrows
    /\ futures' = IF batch # <<>> THEN Append(futures, NewFuture(batch))
                                  ELSE futures
    /\ batch' = <<>>
    /\ run_pc' = "drain"
    /\ UNCHANGED <<submittedAtStop, nrows, runNo, ckptFile, start_row, current_row_index,
                   shutdown_requested, imported, ckptBefore, ckptRemoved,
                   ended, sawShutdown, sawReject>>
    /\ UNCHANGED notRunVars

\* the reader raises (csv.Error): the exception leaves run() through the
\* finally clause (851-852, executor.shutdown(wait=False)); the checkpoint is
\* not cleared and the executor's threads still work off what was submitted
ReadError ==
    /\ run_pc = "stream"
    /\ current_row_index < nrows
    /\ run_pc' = "aborted"
    /\ UNCHANGED <<submittedAtStop, nrows, runNo, ckptFile, start_row, current_row_index, batch,
                   futures, shutdown_requested, imported, ckptBefore,
                   ckptRemoved, ended, sawShutdown, sawReject>>
    /\ UNCHANGED notRunVars

\* process_batch, lines 426-458: a pool thread takes the oldest queued chunk
\* and prepares the payload; with the shutdown flag set it returns (0, 0)
\* without a request
WorkerStart ==
    /\ run_pc \in {"stream", "drain", "aborted"}
    /\ Queued # {}
    /\ Cardinality(Running) < Concurrency
    /\ LET i == CHOOSE j \in Queued : \A k \in Queued : j <= k
       IN futures' = [futures EXCEPT ![i] =
              IF shutdown_requested
                THEN [@ EXCEPT !.st = "done", !.sent = FALSE, !.s = 0, !.e = 0]
                ELSE [@ EXCEPT !.st = "running"]]
    /\ UNCHANGED <<submittedAtStop, nrows, runNo, run_pc, ckptFile, start_row,
                   current_row_index, batch, shutdown_requested, imported,
                   ckptBefore, ckptRemoved, ended, sawShutdown, sawReject>>
    /\ UNCHANGED notRunVars

\* process_batch, lines 469-500: the bulk request returns; accepted, the
\* backend has stored every record of the chunk; an error counts the whole
\* chunk as failed
WorkerFinish(i, accepted) ==
    /\ run_pc \in {"stream", "drain", "aborted"}
    /\ i \in Running
    /\ LET n == Len(futures[i].rows)
       IN futures' = [futures EXCEPT ![i] =
              [@ EXCEPT !.st = "done", !.sent = TRUE,
                        !.s = IF accepted THEN n ELSE 0,
                        !.e = IF accepted THEN 0 ELSE n]]
    /\ imported' = IF accepted THEN imported \cup Range(futures[i].rows)
                               ELSE imported
    /\ sawReject' = (sawReject \/ ~accepted)
    /\ UNCHANGED <<submittedAtStop, nrows, runNo, run_pc, ckptFile, start_row,
                   current_row_index, batch, shutdown_requested, ckptBefore,
                   ckptRemoved, ended, sawShutdown>>
    /\ UNCHANGED notRunVars

\* lines 814-850: every future has completed; "Done", ckpt.clear()
Finish ==
    /\ run_pc = "drain"
    /\ AllDone
    /\ ckptRemoved' = (ckptFile # NoFile)
    /\ ckptFile' = CheckpointClear
    /\ run_pc' = "done"
    /\ UNCHANGED <<submittedAtStop, nrows, runNo, start_row, current_row_index, batch, futures,
                   shutdown_requested, imported, ckptBefore, ended,
                   sawShutdown, sawReject>>
    /\ UNCHANGED notRunVars

\* signal_handler (115-119): SIGINT/SIGTERM sets the flag
ShutdownSignal ==
    /\ run_pc \in {"start", "stream", "drain"}
    /\ ~shutdown_requested
    /\ shutdown_requested' = TRUE
    /\ sawShutdown' = TRUE
    /\ submittedAtStop' = Len(futures)
    /\ UNCHANGED <<nrows, runNo, run_pc, ckptFile, start_row,
                   current_row_index, batch, futures, imported, ckptBefore,
                   ckptRemoved, ended, sawReject>>
    /\ UNCHANGED notRunVars

\* the process is killed: nothing of it runs any more; the checkpoint file
\* and what the backend has stored stay as they are
Kill ==
    /\ run_pc \in {"stream", "drain"}
    /\ run_pc' = "killed"
    /\ UNCHANGED <<submittedAtStop, nrows, runNo, ckptFile, start_row, current_row_index, batch,
                   futures, shutdown_requested, imported, ckptBefore,
                   ckptRemoved, ended, sawShutdown, sawReject>>
    /\ UNCHANGED notRunVars

\* the run is over (an aborted process has exited once its pool threads have
\* worked off the queue); the importer is invoked again on the same file
RunOver ==
    \/ run_pc \in {"done", "killed", "skipped"}
    \/ run_pc = "aborted" /\ AllDone

Rerun ==
    /\ RunOver
    /\ runNo < MaxRuns
    /\ runNo' = runNo + 1
    /\ ended' = Append(ended, run_pc)
    /\ run_pc' = "start"
    /\ ckptBefore' = CheckpointRead
    /\ ckptRemoved' = FALSE
    /\ start_row' = 0
    /\ current_row_index' = 0
    /\ batch' = <<>>
    /\ futures' = <<>>
    /\ shutdown_requested' = FALSE
    /\ submittedAtStop' = 0
    /\ UNCHANGED <<nrows, ckptFile, imported, sawShutdown, sawReject>>
    /\ UNCHANGED notRunVars

NextRun ==
    \/ \E objOk \in BOOLEAN : Reconcile(objOk)
    \/ ReadRow
    \/ EndOfFile
    \/ ReadError
    \/ WorkerStart
    \/ \E i \in DOMAIN futures : \E accepted \in BOOLEAN : WorkerFinish(i, accepted)
    \/ Finish
    \/ ShutdownSignal
    \/ Kill
    \/ Rerun

SpecRun == InitRun /\ [][NextRun]_vars

(***************************************************************************)
(* Claims about Importer.run (SpecRun).                                    *)
(***************************************************************************)
AllRows == 0..(nrows - 1)

SubmittedRows == Flatten([i \in DOMAIN futures |-> futures[i].rows])

\* C1: if a run is killed mid-stream and the import is then re-run to
\* completion, every data row of the file has been stored by the backend
\* in at least one of the two runs (the backend accepting all it receives,
\* no shutdown signal involved).
C1_NoRowLostAfterKillAndRerun ==
    (runNo = 2 /\ ended = <<"killed">> /\ run_pc = "done"
        /\ ~sawShutdown /\ ~sawReject)
    => AllRows \subseteq imported

\* C2 (the case of a killed or aborted run): when a run has ended without
\* reaching Done, the checkpoint read back is at least the value it had
\* when that run started.
C2_CheckpointNotLoweredByInterruptedRun ==
    (RunOver /\ run_pc \in {"killed", "aborted"})
    => CheckpointRead >= ckptBefore

\* C3: a run that started with checkpoint value k places no row below k in
\* a batch, and the rows from k on are placed in batches in source order:
\* the submitted chunks followed by the open batch are exactly the rows
\* k .. current_row_index-1, in that order.
C3_ResumeSkipsRowsBelowCheckpoint ==
    (run_pc \in {"stream", "drain", "done", "killed", "aborted"})
    => \/ run_pc = "aborted" /\ current_row_index = 0 /\ futures = <<>>
       \/ /\ start_row = ckptBefore
          /\ \A i \in DOMAIN futures : \A j \in DOMAIN futures[i].rows :
                 futures[i].rows[j] >= ckptBefore
          /\ SubmittedRows \o batch =
                 [n \in 1..(IF current_row_index > ckptBefore
                              THEN current_row_index - ckptBefore ELSE 0)
                    |-> ckptBefore + n - 1]

\* a resumed run (k > 0) has read past k and submitted chunks
C3_Witness ==
    /\ runNo = 2
    /\ ckptBefore > 0
    /\ run_pc = "done"
    /\ Len(futures) >= 2

\* C4: the checkpoint file is removed only by a run in which every
\* submitted batch has been sent and completed, and never by a run that was
\* interrupted by the shutdown signal.
C4_CheckpointRemovedOnlyWhenDone ==
    ckptRemoved
    => /\ \A i \in DOMAIN futures : futures[i].st = "done" /\ futures[i].sent
       /\ ~shutdown_requested

(***************************************************************************)
(* NexusClient.request (migration_tool/client.py:25-63 and                 *)
(* import_salesforce.py:184-243).  One worker thread owns self._local; it  *)
(* makes MaxRequests requests one after the other.                         *)
(***************************************************************************)
RETRIES == 3                \* client.py:26, import_salesforce.py:185

\* what one attempt can end in: an HTTP status, or an exception ("exc")
\* raised by conn.request / getresponse / read
Statuses == {200, 404, 409, 429, 500, 503}
Resp(status) == [exc |-> FALSE, status |-> status]
Exc == [exc |-> TRUE, status |-> 0]
Outcomes == {Resp(s) : s \in Statuses} \cup {Exc}

\* client.py:40 (`status >= 500 or status == 429`),
\* import_salesforce.py:212 (`status >= 500`)
RetryStatus_Without429(c, status) == status >= 500
RetryStatus_Any4xx(c, status) == status >= 400
RetryStatus(c, status) ==
    IF c = "tool" THEN status >= 500 \/ status = 429
                  ELSE status >= 500

\* client.py:41,57 / import_salesforce.py:213,237: `attempt < retries`
CanRetry(att) == att < RETRIES

\* `for attempt in range(retries + 1)`: is there an iteration after att
LoopHasNext(att) == att + 1 < RETRIES + 1

\* _get_connection: the thread's connection, created when absent
GetConnection == IF conn = 0 THEN nextConn ELSE conn

InitReq ==
    /\ client \in {"tool", "sf"}
    /\ reqNo = 1
    /\ req_pc = "calling"
    /\ attempt = 0
    /\ conn = 0
    /\ nextConn = 1
    /\ sleeps = 0
    /\ backoff = 1
    /\ history = <<>>
    /\ usedConn = <<>>
    /\ result = "none"
    /\ failedConns = {}
    /\ NotReqAtRest

\* `continue`: the next iteration of the loop, or the statement after the
\* loop (`return None, "Max retries exceeded"`) when the range is exhausted
Continue ==
    IF LoopHasNext(attempt)
      THEN /\ attempt' = attempt + 1
           /\ req_pc' = "calling"
           /\ result' = "none"
      ELSE /\ attempt' = attempt
           /\ req_pc' = "returned"
           /\ result' = "error"

Return(r) ==
    /\ attempt' = attempt
    /\ req_pc' = "returned"
    /\ result' = r

\* time.sleep(backoff); backoff *= 2
Sleep ==
    /\ sleeps' = sleeps + 1
    /\ backoff' = backoff * 2

NoSleep == UNCHANGED <<sleeps, backoff>>

\* one iteration of the retry loop that ends in outcome `out`
Attempt(out) ==
    /\ req_pc = "calling"
    /\ LET c == GetConnection
           failed == out.exc \/ out.status >= 500 \/ out.status = 429
       IN /\ nextConn' = IF conn = 0 THEN nextConn + 1 ELSE nextConn
          /\ history' = Append(history, out)
          /\ usedConn' = Append(usedConn, c)
          /\ failedConns' = IF failed THEN failedConns \cup {c} ELSE failedConns
          /\ IF out.exc
               THEN \* except Exception
                    IF client = "tool"
                      THEN IF CanRetry(attempt)
                             THEN Sleep /\ conn' = 0 /\ Continue
                             ELSE NoSleep /\ conn' = c /\ Return("error")
                      ELSE \* import_salesforce.py:236 closes first
                           IF CanRetry(attempt)
                             THEN Sleep /\ conn' = 0 /\ Continue
                             ELSE NoSleep /\ conn' = 0 /\ Return("error")
               ELSE IF RetryStatus(client, out.status) /\ CanRetry(attempt)
                      THEN Sleep /\ conn' = 0 /\ Continue
                      ELSE IF out.status >= 400
                             THEN NoSleep /\ conn' = c /\ Return("error")
                             ELSE NoSleep /\ conn' = c /\ Return("data")
    /\ UNCHANGED <<client, reqNo>>
    /\ UNCHANGED notReqVars

\* the worker calls request() again
NewRequest ==
    /\ req_pc = "returned"
    /\ reqNo < MaxRequests
    /\ reqNo' = reqNo + 1
    /\ req_pc' = "calling"
    /\ attempt' = 0
    /\ sleeps' = 0
    /\ backoff' = 1
    /\ history' = <<>>
    /\ usedConn' = <<>>
    /\ result' = "none"
    /\ UNCHANGED <<client, conn, nextConn, failedConns>>
    /\ UNCHANGED notReqVars

NextReq ==
    \/ \E out \in Outcomes : Attempt(out)
    \/ NewRequest

SpecReq == InitReq /\ [][NextReq]_vars

\* a thread inside request() keeps running: every attempt ends
SpecReqFair == SpecReq /\ WF_vars(\E out \in Outcomes : Attempt(out))

(***************************************************************************)
(* Claims about NexusClient.request (SpecReq, SpecReqFair).                *)
(***************************************************************************)
Last(seq) == seq[Len(seq)]

\* an attempt that ends in a connection error, a 5xx or a 429
TransientFailure(out) == out.exc \/ out.status \in {429, 500, 503}

\* a 4xx response other than 429
ApplicationError(out) == ~out.exc /\ out.status \in {404, 409}

C5_RetryShape ==
    (client = "tool") =>
    /\ Len(history) <= RETRIES + 1
    /\ \A i \in 1..(Len(history) - 1) : TransientFailure(history[i])
    /\ (req_pc = "calling") =>
           /\ attempt = Len(history)
           /\ \A i \in DOMAIN history : TransientFailure(history[i])
    /\ (req_pc = "returned") =>
           /\ history # <<>>
           /\ TransientFailure(Last(history)) =>
                  Len(history) = RETRIES + 1 /\ result = "error"

\* C5: in one call of request() of migration_tool/client.py every attempt
\* that ends in a connection error, a 5xx or a 429 is followed by another
\* attempt as long as fewer than 4 attempts have been made; a call makes at
\* most 4 attempts; when the 4th fails the call returns an error; and every
\* call returns.
C5_BoundedRetry ==
    /\ []C5_RetryShape
    /\ (req_pc = "calling") ~> (req_pc = "returned")

\* a call that failed four times and returned the error
C5_Witness ==
    /\ client = "tool"
    /\ req_pc = "returned"
    /\ Len(history) = 4
    /\ history = <<Exc, Resp(429), Resp(503), Resp(500)>>
    /\ result = "error"
    /\ sleeps = 3

\* C6: an attempt answered by a 4xx other than 429 is the call's last
\* attempt: request() returns the error at once, without a retry and
\* without a backoff sleep after it, and the worker's connection is the one
\* the attempt ran on (answered at the first attempt, the call has made
\* exactly one attempt and has not slept).
C6_ApplicationErrorNotRetried ==
    \A i \in DOMAIN history :
        ApplicationError(history[i]) =>
            /\ i = Len(history)
            /\ req_pc = "returned"
            /\ result = "error"
            /\ sleeps = i - 1
            /\ conn # 0
            /\ conn = usedConn[i]

\* a 404 at the first attempt of a request made on a connection that an
\* earlier request of the worker had opened
C6_Witness ==
    /\ reqNo = 2
    /\ history = <<Resp(404)>>
    /\ req_pc = "returned"
    /\ result = "error"
    /\ sleeps = 0
    /\ conn = 1

(***************************************************************************)
(* _process_csv (migration_tool/importer.py:104-240) and process_file      *)
(* (migration_csv_tool/importer.py:10-178), with _send_batch and           *)
(* SchemaManager.ensure_object / ensure_fields.  The two importers have    *)
(* the same statements; line numbers are those of migration_tool.          *)
(*                                                                         *)
(* A header is its named cells followed by csv_pad blank cells (trailing   *)
(* delimiters): blank cells count in len(headers) and carry no field.      *)
(* Header cells are given lower-cased and trimmed.  A data row is its      *)
(* cells; a row may be shorter than the header.                            *)
(***************************************************************************)
PLACEHOLDER_CEILING == 50000     \* importer.py:186  int(50000 / num_columns)

\* a header of 25000 cells (floor(50000 / C) = 2) or 50001 cells (0)
HeaderChoices == {<<"id", "owner_id", "amount">>}
PadChoices == {24997, 49998}
\* cells of a data row; the second kind is a short row with the id only
RowKinds == {<<"7", "7", "$5">>, <<"7">>}

RECURSIVE SeqsUpTo(_, _)
SeqsUpTo(S, n) ==
    IF n = 0 THEN {<<>>}
    ELSE LET shorter == SeqsUpTo(S, n - 1)
         IN shorter \cup {Append(q, x) : q \in shorter, x \in S}

\* types infer_type can return for a column of that name (schema.py:10-115);
\* which one depends on the sampled values
PossibleTypes(col) ==
    IF col = "owner_id" THEN {"LongTextArea", "Lookup"}
                        ELSE {"LongTextArea", "Number"}

\* len(headers)
NumColumns == Len(csv_headers) + csv_pad

\* the columns for which ensure_fields creates a field (schema.py:151-162)
FieldColumns == {csv_headers[i] : i \in {j \in DOMAIN csv_headers : csv_headers[j] # ""}}

\* importer.py:184-189: int(50000 / num_columns) is the floor of the
\* quotient (the float quotient of two integers of this size is off by less
\* than the distance of a non-integer quotient to the next integer)
SafeBatchSize_NoCap(configured, ncols) == configured
SafeBatchSize(configured, ncols) ==
    IF ncols > 0
      THEN Min(configured, PLACEHOLDER_CEILING \div ncols)
      ELSE configured

\* schema.py:117-133: True unless the GET and the create POST both fail
EnsureObjectResult_IgnoresCreateError(getErr, postErr) == TRUE
EnsureObjectResult(getErr, postErr) ==
    IF ~getErr THEN TRUE ELSE ~postErr

\* utils.py:68-74 normalize_number, 48-66 normalize_date, 76-83
\* normalize_boolean, on the cell values of RowKinds
NormalizeNumber(val) == IF val = "$5" THEN "5" ELSE val
NormalizeDate(val) == val
NormalizeBoolean(val) == val

\* importer.py:207-213
NormalizeCell(type, val) ==
    CASE type = "DateTime" -> NormalizeDate(val)
      [] type = "Number"   -> NormalizeNumber(val)
      [] type = "Boolean"  -> NormalizeBoolean(val)
      [] OTHER             -> val

\* f"Record {len(batch) + 1}"
RecordName(n) ==
    CASE n = 1 -> "Record 1" [] n = 2 -> "Record 2" [] n = 3 -> "Record 3"
      [] n = 4 -> "Record 4" [] OTHER -> "Record 5+"

\* importer.py:199-215: the record of a row
CellColumns(row) ==
    {i \in 1..Min(Len(row), Len(csv_headers)) :
        csv_headers[i] # "" /\ row[i] # ""}

RawRecord(row, typed) ==
    [c \in {csv_headers[i] : i \in CellColumns(row)} |->
        LET i == CHOOSE j \in CellColumns(row) :
                   /\ csv_headers[j] = c
                   /\ \A k \in CellColumns(row) : csv_headers[k] = c => k <= j
        IN IF c \in DOMAIN typed THEN NormalizeCell(typed[c], row[i])
                                 ELSE row[i]]

\* importer.py:217-224: the synthesised name
NameCandidates == <<"id", "title", "subject", "email">>

SynthName(rec, batchLen) ==
    LET found == {k \in DOMAIN NameCandidates : NameCandidates[k] \in DOMAIN rec}
    IN IF found # {}
         THEN rec[NameCandidates[CHOOSE k \in found : \A m \in found : k <= m]]
         ELSE RecordName(batchLen + 1)

WithName(rec, batchLen) ==
    IF "name" \notin DOMAIN rec /\ "name" \notin FieldColumns
      THEN [k \in DOMAIN rec \cup {"name"} |->
               IF k = "name" THEN SynthName(rec, batchLen) ELSE rec[k]]
      ELSE rec

\* importer.py:226-228
Meaningful(rec) == DOMAIN rec \ {"id", "name"} # {}

\* executor.submit(_send_batch, ...): a future queued on the pool
\* (err, s, f: history of what _send_batch saw and passed to stats.update)
CsvFuture(records, afterStop) ==
    [n |-> Len(records), records |-> records, st |-> "queued",
     afterStop |-> afterStop, err |-> FALSE, s |-> 0, f |-> 0]

\* _send_batch, importer.py:249-251: the counts of a batch whose request
\* returned an error
BatchFailureCounts_Dropped(n) == [total |-> n, success |-> 0, error |-> 0]
BatchFailureCounts(n) == [total |-> n, success |-> 0, error |-> n]

\* _send_batch, importer.py:254-257: the counts of an answered batch
BatchResultCounts(n, s, f) == [total |-> n, success |-> s, error |-> f]

CsvRunning == {i \in DOMAIN csv_futures : csv_futures[i].st = "running"}
CsvQueued == {i \in DOMAIN csv_futures : csv_futures[i].st = "queued"}
CsvAllDone_NoWait == TRUE
CsvAllDone == \A i \in DOMAIN csv_futures : csv_futures[i].st = "done"

\* a source file with one of the given headers, paddings and kinds of row
InitCsvWith(headers, pads, kinds) ==
    /\ csv_hasHeader \in BOOLEAN
    /\ csv_headers \in (IF csv_hasHeader THEN headers ELSE {<<>>})
    /\ csv_pad \in (IF csv_hasHeader THEN pads ELSE {0})
    /\ csv_file \in (IF csv_hasHeader THEN SeqsUpTo(kinds, MaxCsvRows)
                                      ELSE {<<>>})
    /\ args_batch_size \in 1..MaxBatchArg
    /\ csv_pc = "open"
    /\ csv_log = <<>>
    /\ csv_obj_get = "none"
    /\ csv_obj_post = "none"
    /\ csv_typed_map = <<>>
    /\ csv_batch_size = 0
    /\ csv_pos = 0
    /\ csv_batch = <<>>
    /\ csv_futures = <<>>
    /\ csv_shutdown = FALSE
    /\ csv_stopped = FALSE
    /\ stats = [total_rows |-> 0, success_count |-> 0, error_count |-> 0]
    /\ NotCsvAtRest

InitCsv == InitCsvWith(HeaderChoices, PadChoices, RowKinds)

\* source files with and without a name column, and rows whose name or
\* candidate cells are empty
NamedHeaderChoices == {<<"name", "email", "amount">>,
                       <<"title", "email", "amount">>}
NamedRowKinds == {<<"Acme", "a@b.co", "$5">>, <<"", "a@b.co", "$5">>,
                  <<"", "", "$5">>}

InitCsvNames == InitCsvWith(NamedHeaderChoices, {0}, NamedRowKinds)

\* importer.py:105-166: the header is read (an empty file returns) and the
\* sample is taken; no request is issued
CsvOpen ==
    /\ csv_pc = "open"
    /\ csv_pc' = IF csv_hasHeader THEN "reconcile" ELSE "skipped"
    /\ UNCHANGED <<csv_hasHeader, csv_headers, csv_pad, csv_file,
                   args_batch_size, csv_log, csv_obj_get, csv_obj_post,
                   csv_typed_map, csv_batch_size, csv_pos, csv_batch,
                   csv_futures, csv_shutdown, csv_stopped, stats>>
    /\ UNCHANGED notCsvVars

\* importer.py:169-172 with schema.py:117-133: GET the object, POST it when
\* the GET failed; a failed ensure_object ends _process_csv
CsvEnsureObject(getErr, postErr) ==
    /\ csv_pc = "reconcile"
    /\ csv_obj_get' = IF getErr THEN "err" ELSE "ok"
    /\ csv_obj_post' = IF ~getErr THEN "none" ELSE IF postErr THEN "err" ELSE "ok"
    /\ csv_log' = IF getErr THEN csv_log \o <<"GET_OBJ", "POST_OBJ">>
                            ELSE Append(csv_log, "GET_OBJ")
    /\ csv_pc' = IF EnsureObjectResult(getErr, postErr) THEN "fields"
                                                        ELSE "aborted"
    /\ UNCHANGED <<csv_hasHeader, csv_headers, csv_pad, csv_file,
                   args_batch_size, csv_typed_map, csv_batch_size, csv_pos,
                   csv_batch, csv_futures, csv_shutdown, csv_stopped, stats>>
    /\ UNCHANGED notCsvVars

\* the create requests of one field (schema.py:173-197): one POST, and for
\* a rejected Lookup one more POST as LongTextArea
FieldRequests(type, rejected) ==
    IF rejected /\ type = "Lookup" THEN <<"POST_FIELD", "POST_FIELD">>
                                   ELSE <<"POST_FIELD">>

RECURSIVE FieldsLog(_, _, _)
FieldsLog(k, types, rejected) ==
    IF k > Len(csv_headers) THEN <<>>
    ELSE (IF csv_headers[k] = "" THEN <<>>
          ELSE FieldRequests(types[csv_headers[k]], csv_headers[k] \in rejected))
         \o FieldsLog(k + 1, types, rejected)

\* importer.py:174-191: ensure_fields creates every field on its pool and
\* returns when all have completed; the source is re-opened and the batch
\* size computed
TypeChoices ==
    {t \in [FieldColumns -> UNION {PossibleTypes(c) : c \in FieldColumns}] :
        \A c \in FieldColumns : t[c] \in PossibleTypes(c)}

CsvEnsureFields ==
    /\ csv_pc = "fields"
    /\ \E types \in TypeChoices : \E rejected \in SUBSET FieldColumns :
           /\ csv_typed_map' = types
           /\ csv_log' = csv_log \o FieldsLog(1, types, rejected)
    /\ csv_batch_size' = SafeBatchSize(args_batch_size, NumColumns)
    /\ csv_pc' = "stream"
    /\ UNCHANGED <<csv_hasHeader, csv_headers, csv_pad, csv_file,
                   args_batch_size, csv_obj_get, csv_obj_post, csv_pos,
                   csv_batch, csv_futures, csv_shutdown, csv_stopped, stats>>
    /\ UNCHANGED notCsvVars

\* one iteration of `for row in reader` (importer.py:196-235)
CsvReadRow ==
    /\ csv_pc = "stream"
    /\ csv_pos < Len(csv_file)
    /\ IF csv_shutdown
         THEN \* line 197: break
              /\ csv_stopped' = TRUE
              /\ csv_pc' = "flush"
              /\ UNCHANGED <<csv_pos, csv_batch, csv_futures>>
         ELSE LET rec  == WithName(RawRecord(csv_file[csv_pos + 1], csv_typed_map),
                                   Len(csv_batch))
                  keep == Meaningful(rec)
                  b1   == IF keep THEN Append(csv_batch, rec) ELSE csv_batch
                  sub  == keep /\ Len(b1) >= csv_batch_size
              IN /\ csv_pos' = csv_pos + 1
                 /\ csv_batch' = IF sub THEN <<>> ELSE b1
                 /\ csv_futures' = IF sub
                                     THEN Append(csv_futures, CsvFuture(b1, FALSE))
                                     ELSE csv_futures
                 /\ UNCHANGED <<csv_stopped, csv_pc>>
    /\ UNCHANGED <<csv_hasHeader, csv_headers, csv_pad, csv_file,
                   args_batch_size, csv_log, csv_obj_get, csv_obj_post,
                   csv_typed_map, csv_batch_size, csv_shutdown, stats>>
    /\ UNCHANGED notCsvVars

\* the reader is exhausted
CsvEndOfFile ==
    /\ csv_pc = "stream"
    /\ csv_pos = Len(csv_file)
    /\ csv_pc' = "flush"
    /\ UNCHANGED <<csv_hasHeader, csv_headers, csv_pad, csv_file,
                   args_batch_size, csv_log, csv_obj_get, csv_obj_post,
                   csv_typed_map, csv_batch_size, csv_pos, csv_batch,
                   csv_futures, csv_shutdown, csv_stopped, stats>>
    /\ UNCHANGED notCsvVars

\* importer.py:237-238, after the loop however it was left: `if batch:` the
\* rest is submitted
CsvFlush ==
    /\ csv_pc = "flush"
    /\ csv_futures' = IF csv_batch # <<>>
                        THEN Append(csv_futures, CsvFuture(csv_batch, csv_stopped))
                        ELSE csv_futures
    /\ csv_batch' = <<>>
    /\ csv_pc' = "drain"
    /\ UNCHANGED <<csv_hasHeader, csv_headers, csv_pad, csv_file,
                   args_batch_size, csv_log, csv_obj_get, csv_obj_post,
                   csv_typed_map, csv_batch_size, csv_pos, csv_shutdown,
                   csv_stopped, stats>>
    /\ UNCHANGED notCsvVars

\* _send_batch, importer.py:242-247: a pool thread takes the oldest queued
\* batch and issues the bulk request
CsvWorkerStart ==
    /\ csv_pc \in {"stream", "flush", "drain"}
    /\ CsvQueued # {}
    /\ Cardinality(CsvRunning) < Concurrency
    /\ LET i == CHOOSE j \in CsvQueued : \A k \in CsvQueued : j <= k
       IN csv_futures' = [csv_futures EXCEPT ![i].st = "running"]
    /\ csv_log' = Append(csv_log, "POST_BULK")
    /\ UNCHANGED <<csv_hasHeader, csv_headers, csv_pad, csv_file,
                   args_batch_size, csv_pc, csv_obj_get, csv_obj_post,
                   csv_typed_map, csv_batch_size, csv_pos, csv_batch,
                   csv_shutdown, csv_stopped, stats>>
    /\ UNCHANGED notCsvVars

\* utils.py:24-28 ImportStatistics.update, under the lock
StatsUpdate(st, total, success, error) ==
    [total_rows    |-> st.total_rows + total,
     success_count |-> st.success_count + success,
     error_count   |-> st.error_count + error]

\* _send_batch, importer.py:249-260: the request has returned; err, or the
\* response's success_count (s) and failed_count (n - s)
CsvWorkerFinish(i, err, failed) ==
    /\ csv_pc \in {"stream", "flush", "drain"}
    /\ i \in CsvRunning
    /\ LET n == csv_futures[i].n
           cnt == IF err THEN BatchFailureCounts(n)
                         ELSE BatchResultCounts(n, n - failed, failed)
       IN /\ stats' = StatsUpdate(stats, cnt.total, cnt.success, cnt.error)
          /\ csv_futures' = [csv_futures EXCEPT ![i].st = "done",
                                                ![i].err = err,
                                                ![i].s = cnt.success,
                                                ![i].f = cnt.error]
    /\ UNCHANGED <<csv_hasHeader, csv_headers, csv_pad, csv_file,
                   args_batch_size, csv_pc, csv_log, csv_obj_get,
                   csv_obj_post, csv_typed_map, csv_batch_size, csv_pos,
                   csv_batch, csv_shutdown, csv_stopped>>
    /\ UNCHANGED notCsvVars

\* importer.py:240 and the exit of the `with` block: every future is done
CsvDone ==
    /\ csv_pc = "drain"
    /\ CsvAllDone
    /\ csv_pc' = "done"
    /\ UNCHANGED <<csv_hasHeader, csv_headers, csv_pad, csv_file,
                   args_batch_size, csv_log, csv_obj_get, csv_obj_post,
                   csv_typed_map, csv_batch_size, csv_pos, csv_batch,
                   csv_futures, csv_shutdown, csv_stopped, stats>>
    /\ UNCHANGED notCsvVars

\* migration_csv_tool/main.py:10-19: the signal handler sets the flag that
\* check_shutdown returns (the flag is read by the streaming loop only; a
\* signal after the loop has been left changes nothing)
CsvShutdownSignal ==
    /\ csv_pc \in {"open", "reconcile", "fields", "stream"}
    /\ ~csv_shutdown
    /\ csv_shutdown' = TRUE
    /\ UNCHANGED <<csv_hasHeader, csv_headers, csv_pad, csv_file,
                   args_batch_size, csv_pc, csv_log, csv_obj_get,
                   csv_obj_post, csv_typed_map, csv_batch_size, csv_pos,
                   csv_batch, csv_futures, csv_stopped, stats>>
    /\ UNCHANGED notCsvVars

NextCsv ==
    \/ CsvOpen
    \/ \E getErr \in BOOLEAN : \E postErr \in BOOLEAN :
           CsvEnsureObject(getErr, postErr)
    \/ CsvEnsureFields
    \/ CsvReadRow
    \/ CsvEndOfFile
    \/ CsvFlush
    \/ CsvWorkerStart
    \/ \E i \in DOMAIN csv_futures : \E err \in BOOLEAN : \E failed \in 0..1 :
           CsvWorkerFinish(i, err, failed)
    \/ CsvDone
    \/ CsvShutdownSignal

SpecCsv == InitCsv /\ [][NextCsv]_vars

SpecCsvNames == InitCsvNames /\ [][NextCsv]_vars

(***************************************************************************)
(* Claims about _process_csv (SpecCsv).                                    *)
(***************************************************************************)
Streamed == csv_pc \in {"stream", "flush", "drain", "done"}

\* C7: every batch submitted to the worker pool has at least one record, at
\* most batch_size records, and records x header columns within the
\* placeholder ceiling of 50000, for every column count and every
\* configured batch size.
C7_SubmittedBatchWithinLimits ==
    \A i \in DOMAIN csv_futures :
        /\ 1 <= csv_futures[i].n
        /\ csv_futures[i].n <= csv_batch_size
        /\ csv_futures[i].n * NumColumns <= 50000

\* C8: for a header of C >= 1 columns the computed batch size is
\* min(configured, floor(50000 / C)): it does not exceed the configured
\* size, batch_size * C stays within 50000, and it is smaller than the
\* configured size only when one more record would pass 50000.
C8_BatchSizeIsCappedMinimum ==
    (Streamed /\ NumColumns >= 1)
    => /\ 0 <= csv_batch_size
       /\ csv_batch_size <= args_batch_size
       /\ csv_batch_size * NumColumns <= 50000
       /\ \/ csv_batch_size = args_batch_size
          \/ (csv_batch_size + 1) * NumColumns > 50000

\* a configured size of 3 cut to floor(50000 / 25000) = 2
C8_Witness ==
    /\ Streamed
    /\ NumColumns = 25000
    /\ args_batch_size = 3
    /\ csv_batch_size = 2
    /\ csv_futures # <<>>

\* C9: once the streaming loop has observed the shutdown signal no batch,
\* full or partial, is submitted any more; the batches submitted before
\* have all completed when _process_csv returns.
C9_NoSubmissionAfterShutdownSeen ==
    /\ \A i \in DOMAIN csv_futures : ~csv_futures[i].afterStop
    /\ (csv_pc = "done") => CsvAllDone

\* C10: when ensure_object fails (the GET fails and the create POST fails
\* too) the import of the source is aborted: no field-creation request and
\* no bulk-insert request is issued, and nothing is submitted to the pool.
C10_ObjectFailureAborts ==
    (csv_obj_get = "err" /\ csv_obj_post = "err")
    => /\ csv_pc = "aborted"
       /\ \A k \in DOMAIN csv_log : csv_log[k] \notin {"POST_FIELD", "POST_BULK"}
       /\ csv_futures = <<>>
       /\ csv_batch = <<>>

\* a source with data rows whose object could be neither read nor created
C10_Witness ==
    /\ csv_pc = "aborted"
    /\ csv_obj_get = "err"
    /\ csv_obj_post = "err"
    /\ csv_log = <<"GET_OBJ", "POST_OBJ">>
    /\ Len(csv_file) >= 2

\* C15: when the bulk request of a batch ends in an error (the client's
\* retries are exhausted), exactly the size of the batch is added to the
\* error count and nothing to the success count, the run is not aborted,
\* and the other batches are still submitted and processed: a run that was
\* not stopped by the signal ends with every row consumed and every batch
\* completed.
C15_FailedBatchCountsAsErrors ==
    /\ []((csv_pc = "done" /\ ~csv_stopped)
             => /\ csv_pos = Len(csv_file)
                /\ csv_batch = <<>>
                /\ CsvAllDone)
    /\ []((\E i \in DOMAIN csv_futures : csv_futures[i].err)
             => csv_pc \in {"stream", "flush", "drain", "done"})
    /\ [][\A i \in DOMAIN csv_futures :
             (/\ csv_futures[i].st = "running"
              /\ csv_futures'[i].st = "done"
              /\ csv_futures'[i].err)
             => /\ stats'.error_count = stats.error_count + csv_futures[i].n
                /\ stats'.success_count = stats.success_count
                /\ stats'.total_rows = stats.total_rows + csv_futures[i].n
                /\ csv_pc' = csv_pc]_vars

\* a finished run whose first batch failed and whose second batch was
\* stored
C15_Witness ==
    /\ csv_pc = "done"
    /\ ~csv_stopped
    /\ Len(csv_futures) = 2
    /\ csv_futures[1].err /\ csv_futures[1].st = "done"
    /\ ~csv_futures[2].err /\ csv_futures[2].s = csv_futures[2].n
    /\ stats.error_count = csv_futures[1].n
    /\ stats.success_count = csv_futures[2].n

(***************************************************************************)
(* SchemaManager.ensure_object and ensure_fields (migration_tool/schema.py *)
(* 117-197; migration_csv_tool/schema.py 114-202 has the same statements)  *)
(* of two importers that work on the same object name with the same        *)
(* columns against one backend.  Every request is client.request; a        *)
(* request is answered atomically by the backend.                          *)
(*                                                                         *)
(* The metadata API is not part of these scripts.  Its answers follow the  *)
(* interface description: GET of an object is 200 or 404, a create is 201, *)
(* a create of an existing api name is 409, a field the backend's          *)
(* validation refuses (a Lookup whose target is missing) is 400.           *)
(***************************************************************************)
Importers == {1, 2}
ObjName == "account"
SchColumns == {"owner_id", "amount"}
FieldTypes == {"Lookup", "Number", "LongTextArea"}

Remote == [objects |-> sch_objects, fields |-> sch_fields]

BackendGetObject(name) ==
    IF name \in Range(sch_objects) THEN 200 ELSE 404

BackendPostObject(name) ==
    IF name \in Range(sch_objects) THEN 409 ELSE 201

BackendPostField(name, api, type) ==
    IF name \notin Range(sch_objects) THEN 404
    ELSE IF \E k \in DOMAIN sch_fields : sch_fields[k].api = api THEN 409
    ELSE IF type \in sch_rejectTypes THEN 400
    ELSE 201

\* client.py:47-52: request returns (None, "API Error ...") for a status of
\* 400 and above and (data, None) otherwise
IsError(status) == status >= 400

\* schema.py:119-121: `if not err: return True` after the GET
ObjectPresent_Never(getErr) == FALSE
ObjectPresent(getErr) == ~getErr

\* schema.py:176-177: `if err:` and `if extra and "Lookup" in str(extra)`;
\* infer_type gives extra with the Lookup type only
NeedsFallback_AnyType(type, err) == err
NeedsFallback(type, err) == err /\ type = "Lookup"

\* schema.py:180: the type of the fallback request
FallbackType == "LongTextArea"

ObjRequest(method, status) ==
    [method |-> method, path |-> "objects", api |-> ObjName,
     type |-> "", status |-> status]

FieldRequest(api, type, status) ==
    [method |-> "POST", path |-> "fields", api |-> api,
     type |-> type, status |-> status]

\* a call that has returned: its arguments, its requests in order, what it
\* returned, the remote schema when it was entered and when it returned
Call(op, p, api, type, reqs, ret, before, start) ==
    [op |-> op, p |-> p, api |-> api, type |-> type, reqs |-> reqs,
     ret |-> ret, before |-> before, after |-> Remote', start |-> start,
     end |-> sch_time']

TasksOf(p) == {t \in DOMAIN sch_task : t[1] = p}
TasksRunning(p) == {t \in TasksOf(p) : sch_task[t].pc = "fallback"}

InitSchema ==
    /\ sch_objects = <<>>
    /\ sch_fields = <<>>
    /\ sch_rejectTypes \in SUBSET FieldTypes
    /\ sch_types \in {f \in [SchColumns -> FieldTypes] :
                         \A c \in SchColumns : f[c] \in PossibleTypes(c)}
    /\ sch_imp = [p \in Importers |->
                     [pc |-> "get", reqs |-> <<>>, before |-> <<>>, start |-> 0]]
    /\ sch_task = [t \in Importers \X SchColumns |->
                     [pc |-> "queued", reqs |-> <<>>, before |-> <<>>, start |-> 0]]
    /\ sch_time = 0
    /\ sch_calls = {}
    /\ NotSchAtRest

\* ensure_object, schema.py:119-121: the GET
SchGetObject(p) ==
    /\ sch_imp[p].pc = "get"
    /\ LET status == BackendGetObject(ObjName)
           reqs == <<ObjRequest("GET", status)>>
       IN /\ sch_time' = sch_time + 1
          /\ UNCHANGED <<sch_objects, sch_fields>>
          /\ IF ObjectPresent(IsError(status))
               THEN /\ sch_imp' = [sch_imp EXCEPT ![p].pc = "fields",
                                                  ![p].reqs = reqs]
                    /\ sch_calls' = sch_calls \cup
                          {Call("ensure_object", p, ObjName, "", reqs, "True",
                                Remote, sch_time)}
               ELSE /\ sch_imp' = [sch_imp EXCEPT ![p].pc = "post",
                                                  ![p].reqs = reqs,
                                                  ![p].before = Remote,
                                                  ![p].start = sch_time]
                    /\ UNCHANGED sch_calls
    /\ UNCHANGED <<sch_rejectTypes, sch_types, sch_task>>
    /\ UNCHANGED notSchVars

\* ensure_object, schema.py:123-133: the create POST and the result; a
\* False makes _process_csv return (importer.py:170-172)
SchPostObject(p) ==
    /\ sch_imp[p].pc = "post"
    /\ LET status == BackendPostObject(ObjName)
           reqs == Append(sch_imp[p].reqs, ObjRequest("POST", status))
           ret == EnsureObjectResult(TRUE, IsError(status))
       IN /\ sch_time' = sch_time + 1
          /\ sch_objects' = IF status = 201 THEN Append(sch_objects, ObjName)
                                            ELSE sch_objects
          /\ UNCHANGED sch_fields
          /\ sch_imp' = [sch_imp EXCEPT
                            ![p].pc = IF ret THEN "fields" ELSE "aborted",
                            ![p].reqs = reqs]
          /\ sch_calls' = sch_calls \cup
                {Call("ensure_object", p, ObjName, "", reqs,
                      IF ret THEN "True" ELSE "False",
                      sch_imp[p].before, sch_imp[p].start)}
    /\ UNCHANGED <<sch_rejectTypes, sch_types, sch_task>>
    /\ UNCHANGED notSchVars

\* _create_field_safe on a pool thread of ensure_fields, schema.py:165-177
\* with _create_field 184-197: the create POST of the inferred type
SchCreateField(p, c) ==
    /\ sch_imp[p].pc = "fields"
    /\ sch_task[<<p, c>>].pc = "queued"
    /\ Cardinality(TasksRunning(p)) < Concurrency
    /\ LET type == sch_types[c]
           status == BackendPostField(ObjName, c, type)
           reqs == <<FieldRequest(c, type, status)>>
       IN /\ sch_time' = sch_time + 1
          /\ sch_fields' = IF status = 201
                             THEN Append(sch_fields, [api |-> c, type |-> type])
                             ELSE sch_fields
          /\ UNCHANGED sch_objects
          /\ IF NeedsFallback(type, IsError(status))
               THEN /\ sch_task' = [sch_task EXCEPT ![<<p, c>>] =
                                       [pc |-> "fallback", reqs |-> reqs,
                                        before |-> Remote, start |-> sch_time]]
                    /\ UNCHANGED sch_calls
               ELSE /\ sch_task' = [sch_task EXCEPT ![<<p, c>>].pc = "done",
                                                    ![<<p, c>>].reqs = reqs]
                    /\ sch_calls' = sch_calls \cup
                          {Call("create_field_safe", p, c, type, reqs, "None",
                                Remote, sch_time)}
    /\ UNCHANGED <<sch_rejectTypes, sch_types, sch_imp>>
    /\ UNCHANGED notSchVars

\* _create_field_safe, schema.py:178-180: the fallback POST; its result is
\* dropped
SchFallback(p, c) ==
    /\ sch_imp[p].pc = "fields"
    /\ sch_task[<<p, c>>].pc = "fallback"
    /\ LET status == BackendPostField(ObjName, c, FallbackType)
           reqs == Append(sch_task[<<p, c>>].reqs,
                          FieldRequest(c, FallbackType, status))
       IN /\ sch_time' = sch_time + 1
          /\ sch_fields' = IF status = 201
                             THEN Append(sch_fields,
                                         [api |-> c, type |-> FallbackType])
                             ELSE sch_fields
          /\ UNCHANGED sch_objects
          /\ sch_task' = [sch_task EXCEPT ![<<p, c>>].pc = "done",
                                          ![<<p, c>>].reqs = reqs]
          /\ sch_calls' = sch_calls \cup
                {Call("create_field_safe", p, c, sch_types[c], reqs, "None",
                      sch_task[<<p, c>>].before, sch_task[<<p, c>>].start)}
    /\ UNCHANGED <<sch_rejectTypes, sch_types, sch_imp>>
    /\ UNCHANGED notSchVars

\* ensure_fields, schema.py:165-169: concurrent.futures.wait(futures) and
\* the exit of the `with` block return once every future is done
FieldsComplete_NoWait(p) == TRUE
FieldsComplete(p) == \A t \in TasksOf(p) : sch_task[t].pc = "done"

\* ensure_fields, schema.py:169-171: every future is done, field_types is
\* returned and _process_csv goes on to the streaming (importer.py:174-194)
SchFieldsReturn(p) ==
    /\ sch_imp[p].pc = "fields"
    /\ FieldsComplete(p)
    /\ sch_imp' = [sch_imp EXCEPT ![p].pc = "stream"]
    /\ UNCHANGED <<sch_objects, sch_fields, sch_rejectTypes, sch_types,
                   sch_task, sch_time, sch_calls>>
    /\ UNCHANGED notSchVars

\* _send_batch, importer.py:234 and 242-247: the streaming loop has
\* submitted a batch and a pool thread issues its bulk-insert request
SchBulk(p) ==
    /\ sch_imp[p].pc = "stream"
    /\ \A c \in sch_calls : ~(c.op = "send_batch" /\ c.p = p)
    /\ sch_time' = sch_time + 1
    /\ UNCHANGED <<sch_objects, sch_fields>>
    /\ sch_calls' = sch_calls \cup
          {Call("send_batch", p, ObjName, "", <<>>, "None", Remote, sch_time)}
    /\ UNCHANGED <<sch_rejectTypes, sch_types, sch_imp, sch_task>>
    /\ UNCHANGED notSchVars

NextSchema ==
    \/ \E p \in Importers : SchBulk(p)
    \/ \E p \in Importers : SchGetObject(p)
    \/ \E p \in Importers : SchPostObject(p)
    \/ \E p \in Importers, c \in SchColumns : SchCreateField(p, c)
    \/ \E p \in Importers, c \in SchColumns : SchFallback(p, c)
    \/ \E p \in Importers : SchFieldsReturn(p)

SpecSchema == InitSchema /\ [][NextSchema]_vars

(***************************************************************************)
(* Claims about the schema reconciliation (SpecSchema).                    *)
(***************************************************************************)
\* what a call is about in a remote schema: the objects, or the fields of
\* the call's api name
Concerned(remote, call) ==
    IF call.op = "ensure_object"
      THEN remote.objects
      ELSE LET SameApi(f) == f.api = call.api
           IN SelectSeq(remote.fields, SameApi)

\* the second of two calls with identical arguments made in sequence
InSequence(c1, c2) ==
    /\ c1.op = c2.op /\ c1.api = c2.api /\ c1.type = c2.type
    /\ c1.end <= c2.start

\* C11: ensure_object, and the field-creation call of one field definition,
\* called a second time with identical arguments after the first call has
\* returned, leaves the remote schema as the first call left it (the object
\* or field is there at most once) and returns no error.
C11_SecondCallChangesNothing ==
    \A c1 \in sch_calls, c2 \in sch_calls :
        InSequence(c1, c2)
        => /\ Concerned(c2.after, c2) = Concerned(c1.after, c1)
           /\ Len(Concerned(c2.after, c2)) <= 1
           /\ c2.ret \in {"True", "None"}

\* one importer has created the object and a Lookup field, the other has
\* then made the same two calls
C11_Witness ==
    \E c1 \in sch_calls, c2 \in sch_calls, f1 \in sch_calls, f2 \in sch_calls :
        /\ InSequence(c1, c2) /\ c1.op = "ensure_object"
        /\ Len(c1.reqs) = 2 /\ c1.reqs[2].status = 201
        /\ c2.ret = "True"
        /\ InSequence(f1, f2) /\ f1.op = "create_field_safe"
        /\ f1.type = "Lookup" /\ f1.reqs[1].status = 201
        /\ f2.reqs[1].status = 409

\* C12: a 409 answer to the object-creation POST is treated as success:
\* when two importers race on ensure_object for the same object name (both
\* GETs fail, both POST, one POST is answered 409) both calls report the
\* object as present and neither import is aborted.
C12_ConflictOnCreateIsSuccess ==
    \A c \in sch_calls :
        (/\ c.op = "ensure_object"
         /\ \E k \in DOMAIN c.reqs :
               c.reqs[k].method = "POST" /\ c.reqs[k].status = 409)
        => c.ret = "True" /\ sch_imp[c.p].pc # "aborted"

\* C13: when the create request of a Lookup field is rejected, exactly one
\* further create request follows, for the same api name with the type
\* LongTextArea; when the create request of a field of another type is
\* rejected, no further request follows for that field; in both cases the
\* import is not aborted and goes on to the streaming.
C13_FallbackOnlyForLookup ==
    \A c \in sch_calls :
        (c.op = "create_field_safe" /\ c.reqs[1].status >= 400)
        => /\ IF c.type = "Lookup"
                THEN /\ Len(c.reqs) = 2
                     /\ c.reqs[2].method = "POST"
                     /\ c.reqs[2].path = "fields"
                     /\ c.reqs[2].api = c.api
                     /\ c.reqs[2].type = "LongTextArea"
                ELSE Len(c.reqs) = 1
           /\ \A k \in DOMAIN c.reqs : c.reqs[k].api = c.api
           /\ sch_imp[c.p].pc \in {"fields", "stream"}
           /\ (\A t \in TasksOf(c.p) : sch_task[t].pc = "done")
                 => (sch_imp[c.p].pc = "stream" \/ ENABLED SchFieldsReturn(c.p))

\* an importer that streams after its Lookup field and its Number field
\* were both refused by the backend's validation
C13_Witness ==
    \E c \in sch_calls, d \in sch_calls :
        /\ c.p = d.p /\ sch_imp[c.p].pc = "stream"
        /\ c.op = "create_field_safe" /\ d.op = "create_field_safe"
        /\ c.type = "Lookup" /\ c.reqs[1].status = 400 /\ Len(c.reqs) = 2
        /\ c.reqs[2].status = 201
        /\ d.type = "Number" /\ d.reqs[1].status = 400 /\ Len(d.reqs) = 1

(***************************************************************************)
(* Importer._handle_bulk_error (import_salesforce.py:502-518), called by   *)
(* process_batch (487-491) on the pool threads of Importer.run for the     *)
(* row errors of a bulk response.  corrected_fields and stats are shared   *)
(* by the threads without a lock; update_field_type (245-249) is a         *)
(* blocking request between the membership test and the add.               *)
(***************************************************************************)
HealWorkers == 1..Concurrency
HealFields == {"amount", "age"}

\* the row errors of the bulk responses: a validation error on a field, or
\* a message the pattern of line 505 does not match
HealMessages ==
    {[kind |-> "type", field |-> f] : f \in HealFields}
        \cup {[kind |-> "other", field |-> ""]}

\* import_salesforce.py:505-506
TypeErrorMatch(msg) == msg.kind = "type"

\* import_salesforce.py:509
NeedsCorrection(field) == field \notin corrected_fields

InitHeal ==
    /\ heal_w = [w \in HealWorkers |->
                    [pc |-> "next", left |-> MaxErrors, field |-> "", tmp |-> 0]]
    /\ corrected_fields = {}
    /\ heal_stats = [corrected_fields |-> {}, auto_corrections |-> 0]
    /\ heal_patches = [f \in HealFields |-> 0]
    /\ heal_seen = [f \in HealFields |-> 0]
    /\ NotHealAtRest

\* process_batch 489-491 and _handle_bulk_error 505-510: the next row error
\* of the thread's responses, up to the membership test
HandleBulkError(w) ==
    /\ heal_w[w].pc = "next"
    /\ heal_w[w].left > 0
    /\ \E msg \in HealMessages :
          /\ IF TypeErrorMatch(msg) /\ NeedsCorrection(msg.field)
               THEN heal_w' = [heal_w EXCEPT ![w].pc = "patch",
                                             ![w].left = @ - 1,
                                             ![w].field = msg.field]
               ELSE heal_w' = [heal_w EXCEPT ![w].left = @ - 1]
          /\ heal_seen' = IF TypeErrorMatch(msg)
                            THEN [heal_seen EXCEPT ![msg.field] = @ + 1]
                            ELSE heal_seen
    /\ UNCHANGED <<corrected_fields, heal_stats, heal_patches>>
    /\ UNCHANGED notHealVars

\* _handle_bulk_error 511 with update_field_type 245-249: the PATCH request
\* and its result
UpdateFieldType(w, ok) ==
    /\ heal_w[w].pc = "patch"
    /\ heal_patches' = [heal_patches EXCEPT ![heal_w[w].field] = @ + 1]
    /\ heal_w' = [heal_w EXCEPT ![w].pc = IF ok THEN "record" ELSE "next"]
    /\ UNCHANGED <<corrected_fields, heal_stats, heal_seen>>
    /\ UNCHANGED notHealVars

\* _handle_bulk_error 512-514 up to the load of stats.auto_corrections
RecordCorrection(w) ==
    /\ heal_w[w].pc = "record"
    /\ corrected_fields' = corrected_fields \cup {heal_w[w].field}
    /\ heal_stats' = [heal_stats EXCEPT
                         !.corrected_fields = @ \cup {heal_w[w].field}]
    /\ heal_w' = [heal_w EXCEPT ![w].pc = "store",
                                ![w].tmp = heal_stats.auto_corrections]
    /\ UNCHANGED <<heal_patches, heal_seen>>
    /\ UNCHANGED notHealVars

\* _handle_bulk_error 514: the store of `stats.auto_corrections += 1`
StoreAutoCorrections(w) ==
    /\ heal_w[w].pc = "store"
    /\ heal_stats' = [heal_stats EXCEPT !.auto_corrections = heal_w[w].tmp + 1]
    /\ heal_w' = [heal_w EXCEPT ![w].pc = "next"]
    /\ UNCHANGED <<corrected_fields, heal_patches, heal_seen>>
    /\ UNCHANGED notHealVars

NextHeal ==
    \/ \E w \in HealWorkers : HandleBulkError(w)
    \/ \E w \in HealWorkers, ok \in BOOLEAN : UpdateFieldType(w, ok)
    \/ \E w \in HealWorkers : RecordCorrection(w)
    \/ \E w \in HealWorkers : StoreAutoCorrections(w)

SpecHeal == InitHeal /\ [][NextHeal]_vars

(***************************************************************************)
(* Claims about the field-type auto-correction (SpecHeal).                 *)
(***************************************************************************)
\* C14: during one run a downgrade request (PATCH to LongTextArea) is
\* issued for a field only on the first type-mismatch error reported for
\* it; later type-mismatch errors for that field, on any worker thread and
\* in any interleaving, issue no further request and do not raise the
\* auto-correction count.
C14_OneDowngradePerField ==
    /\ \A f \in HealFields : heal_patches[f] <= 1
    /\ heal_stats.auto_corrections
          <= Cardinality({f \in HealFields : heal_patches[f] >= 1})

(***************************************************************************)
(* ImportStatistics.update (migration_tool/utils.py:24-28) as the pool     *)
(* threads of _process_csv call it from _send_batch (importer.py:249-257). *)
(* Each `self.x += v` is a load of the attribute followed by a store; the  *)
(* three statements run inside `with self._lock`.                          *)
(***************************************************************************)
StatsWorkers == 1..Concurrency
StatsFields == <<"total_rows", "success_count", "error_count">>
BatchLens == {1, 2}

\* threading.Lock: acquire succeeds when no thread holds the lock
LockFree_Always(holder) == TRUE
LockFree(holder) == holder = 0

\* the arguments of update in the order of its statements
UpdateArgs(cnt) == <<cnt.total, cnt.success, cnt.error>>

InitStats ==
    /\ st_lock = 0
    /\ st_stats = [total_rows |-> 0, success_count |-> 0, error_count |-> 0]
    /\ st_w = [w \in StatsWorkers |->
                  [pc |-> "idle", args |-> <<0, 0, 0>>, k |-> 1, tmp |-> 0]]
    /\ st_sum = [calls |-> 0,
                 sums |-> [total_rows |-> 0, success_count |-> 0,
                           error_count |-> 0]]
    /\ NotStatsAtRest

\* _send_batch 247-257: the request of a batch of n records has returned
\* and stats.update is called with the counts
StatsCall(w, n, err, failed) ==
    /\ st_w[w].pc = "idle"
    /\ st_sum.calls < MaxUpdates
    /\ LET cnt == IF err THEN BatchFailureCounts(n)
                         ELSE BatchResultCounts(n, n - failed, failed)
       IN /\ st_w' = [st_w EXCEPT ![w].pc = "acquire",
                                  ![w].args = UpdateArgs(cnt)]
          /\ st_sum' = [calls |-> st_sum.calls + 1,
                        sums |-> StatsUpdate(st_sum.sums, cnt.total,
                                             cnt.success, cnt.error)]
    /\ UNCHANGED <<st_lock, st_stats>>
    /\ UNCHANGED notStatsVars

\* utils.py:25 `with self._lock:` entered
StatsAcquire(w) ==
    /\ st_w[w].pc = "acquire"
    /\ LockFree(st_lock)
    /\ st_lock' = w
    /\ st_w' = [st_w EXCEPT ![w].pc = "load", ![w].k = 1]
    /\ UNCHANGED <<st_stats, st_sum>>
    /\ UNCHANGED notStatsVars

\* utils.py:26-28: the load of the k-th `+=`
StatsLoad(w) ==
    /\ st_w[w].pc = "load"
    /\ st_w' = [st_w EXCEPT ![w].pc = "store",
                            ![w].tmp = st_stats[StatsFields[st_w[w].k]]]
    /\ UNCHANGED <<st_lock, st_stats, st_sum>>
    /\ UNCHANGED notStatsVars

\* utils.py:26-28: the store of the k-th `+=`; after the third the lock is
\* released and update returns
StatsStore(w) ==
    /\ st_w[w].pc = "store"
    /\ LET k == st_w[w].k
       IN /\ st_stats' = [st_stats EXCEPT
                             ![StatsFields[k]] = st_w[w].tmp + st_w[w].args[k]]
          /\ IF k < Len(StatsFields)
               THEN /\ st_w' = [st_w EXCEPT ![w].pc = "load", ![w].k = k + 1]
                    /\ UNCHANGED st_lock
               ELSE /\ st_w' = [st_w EXCEPT ![w].pc = "idle"]
                    /\ st_lock' = 0
    /\ UNCHANGED st_sum
    /\ UNCHANGED notStatsVars

NextStats ==
    \/ \E w \in StatsWorkers, n \in BatchLens, err \in BOOLEAN, failed \in 0..1 :
           StatsCall(w, n, err, failed)
    \/ \E w \in StatsWorkers : StatsAcquire(w)
    \/ \E w \in StatsWorkers : StatsLoad(w)
    \/ \E w \in StatsWorkers : StatsStore(w)

SpecStats == InitStats /\ [][NextStats]_vars

(***************************************************************************)
(* Claims about the statistics (SpecStats).                                *)
(***************************************************************************)
\* C16: no statistics update is lost under concurrency: whenever all
\* batches handed to the threads have completed, in every interleaving,
\* total_rows is the number of records of all the batches and
\* success_count and error_count are the sums of the values reported per
\* batch.
C16_NoUpdateLost ==
    (\A w \in StatsWorkers : st_w[w].pc = "idle") => st_stats = st_sum.sums

\* all the batches have completed, some failed and some stored
C16_Witness ==
    /\ \A w \in StatsWorkers : st_w[w].pc = "idle"
    /\ st_sum.calls = MaxUpdates
    /\ st_stats.total_rows >= 4
    /\ st_stats.success_count > 0
    /\ st_stats.error_count > 0

(***************************************************************************)
(* main() of import_salesforce.py (854-893: importer.run inside try, the   *)
(* summary in the finally clause) and of migration_csv_tool/main.py        *)
(* (21-37: process_file, then stats.print_summary()).  The import between  *)
(* is taken batch by batch: the main thread submits batches, the pool      *)
(* threads complete them, the counts reach the global stats.               *)
(***************************************************************************)
MainTools == {"sf", "csv"}

MainQueued == {i \in DOMAIN main_futures : main_futures[i].st = "queued"}
MainRunning == {i \in DOMAIN main_futures : main_futures[i].st = "running"}
MainDone == {i \in DOMAIN main_futures : main_futures[i].st = "done"}
MainCounted == {i \in DOMAIN main_futures : main_futures[i].counted}

\* import_salesforce.py:887-893: the finally clause prints the summary in
\* both branches of `if not shutdown_requested`; main.py:37 prints it
\* after process_file has returned
SummaryPrinted_NotWhenInterrupted(tool, interrupted) == ~interrupted
SummaryPrinted(tool, interrupted) ==
    IF tool = "sf" THEN (IF ~interrupted THEN TRUE ELSE TRUE)
                   ELSE TRUE

\* an exception that leaves run() or process_file reaches print_summary
\* only through the finally clause of import_salesforce.py:887
SummaryAfterException(tool) == tool = "sf"

\* the streaming loop tests the shutdown flag in migration_csv_tool
\* (importer.py:129); the loop of Importer.run (792-805) does not
LoopSeesShutdown(tool) == tool = "csv"

InitMain ==
    /\ main_tool \in MainTools
    /\ main_pc = "start"
    /\ main_shutdown = FALSE
    /\ main_futures = <<>>
    /\ main_stats = [total_rows |-> 0, success_count |-> 0, error_count |-> 0]
    /\ main_printed = [done |-> FALSE, total_rows |-> 0, success_count |-> 0,
                       error_count |-> 0]
    /\ NotMainAtRest

\* import_salesforce.py:875-878 / main.py:33-36: the import is started
MainStart ==
    /\ main_pc = "start"
    /\ main_pc' = "stream"
    /\ UNCHANGED <<main_tool, main_shutdown, main_futures, main_stats,
                   main_printed>>
    /\ UNCHANGED notMainVars

\* the streaming loop submits one more batch of n records, or leaves: at
\* the end of the input, or (migration_csv_tool) on the shutdown flag
MainStream(n, more) ==
    /\ main_pc = "stream"
    /\ IF (LoopSeesShutdown(main_tool) /\ main_shutdown) \/ ~more
            \/ Len(main_futures) >= MaxBatches
         THEN /\ main_pc' = "drain"
              /\ UNCHANGED main_futures
         ELSE /\ main_futures' = Append(main_futures,
                    [n |-> n, st |-> "queued", s |-> 0, e |-> 0,
                     counted |-> FALSE])
              /\ UNCHANGED main_pc
    /\ UNCHANGED <<main_tool, main_shutdown, main_stats, main_printed>>
    /\ UNCHANGED notMainVars

\* a pool thread takes the oldest queued batch; process_batch of
\* import_salesforce.py returns (0, 0) at once when the flag is set (457)
MainWorkerStart ==
    /\ main_pc \in {"stream", "drain"}
    /\ MainQueued # {}
    /\ Cardinality(MainRunning) < Concurrency
    /\ LET i == CHOOSE j \in MainQueued : \A k \in MainQueued : j <= k
       IN main_futures' = [main_futures EXCEPT ![i].st =
              IF main_tool = "sf" /\ main_shutdown THEN "done" ELSE "running"]
    /\ UNCHANGED <<main_tool, main_pc, main_shutdown, main_stats, main_printed>>
    /\ UNCHANGED notMainVars

\* the bulk request of a batch returns.  _send_batch updates stats on the
\* pool thread (migration_csv_tool/importer.py); process_batch returns the
\* counts to the main thread (import_salesforce.py:475, 500)
MainWorkerFinish(i, err, failed) ==
    /\ main_pc \in {"stream", "drain"}
    /\ i \in MainRunning
    /\ LET n == main_futures[i].n
           cnt == IF err THEN BatchFailureCounts(n)
                         ELSE BatchResultCounts(n, n - failed, failed)
       IN IF main_tool = "csv"
            THEN /\ main_futures' = [main_futures EXCEPT
                        ![i].st = "done", ![i].s = cnt.success,
                        ![i].e = cnt.error, ![i].counted = TRUE]
                 /\ main_stats' = StatsUpdate(main_stats, cnt.total,
                                              cnt.success, cnt.error)
            ELSE /\ main_futures' = [main_futures EXCEPT
                        ![i].st = "done", ![i].s = cnt.success,
                        ![i].e = cnt.error]
                 /\ UNCHANGED main_stats
    /\ UNCHANGED <<main_tool, main_pc, main_shutdown, main_printed>>
    /\ UNCHANGED notMainVars

\* import_salesforce.py:814-823: the as_completed loop of the main thread
\* adds the result of a completed batch to stats
MainCollect(i) ==
    /\ main_tool = "sf"
    /\ main_pc = "drain"
    /\ i \in MainDone \ MainCounted
    /\ main_stats' = StatsUpdate(main_stats,
                                 main_futures[i].s + main_futures[i].e,
                                 main_futures[i].s, main_futures[i].e)
    /\ main_futures' = [main_futures EXCEPT ![i].counted = TRUE]
    /\ UNCHANGED <<main_tool, main_pc, main_shutdown, main_printed>>
    /\ UNCHANGED notMainVars

\* every batch has completed (and been collected): run() / process_file
\* returns
MainReturn ==
    /\ main_pc = "drain"
    /\ MainDone = DOMAIN main_futures
    /\ MainCounted = DOMAIN main_futures
    /\ main_pc' = "returned"
    /\ UNCHANGED <<main_tool, main_shutdown, main_futures, main_stats,
                   main_printed>>
    /\ UNCHANGED notMainVars

\* an exception leaves run() / process_file (the file cannot be opened, the
\* reader raises)
MainRaise ==
    /\ main_pc \in {"stream", "drain"}
    /\ main_pc' = IF SummaryAfterException(main_tool) THEN "finally"
                                                      ELSE "died"
    /\ UNCHANGED <<main_tool, main_shutdown, main_futures, main_stats,
                   main_printed>>
    /\ UNCHANGED notMainVars

\* import_salesforce.py:887-893, main.py:37: the summary
MainPrintSummary ==
    /\ main_pc \in {"returned", "finally"}
    /\ main_printed' =
          IF SummaryPrinted(main_tool, main_shutdown)
            THEN [done |-> TRUE, total_rows |-> main_stats.total_rows,
                  success_count |-> main_stats.success_count,
                  error_count |-> main_stats.error_count]
            ELSE main_printed
    /\ main_pc' = "exit"
    /\ UNCHANGED <<main_tool, main_shutdown, main_futures, main_stats>>
    /\ UNCHANGED notMainVars

\* signal_handler: SIGINT / SIGTERM sets the flag
MainSignal ==
    /\ main_pc \in {"start", "stream", "drain"}
    /\ ~main_shutdown
    /\ main_shutdown' = TRUE
    /\ UNCHANGED <<main_tool, main_pc, main_futures, main_stats, main_printed>>
    /\ UNCHANGED notMainVars

NextMain ==
    \/ MainStart
    \/ \E n \in BatchLens, more \in BOOLEAN : MainStream(n, more)
    \/ MainWorkerStart
    \/ \E i \in DOMAIN main_futures, err \in BOOLEAN, failed \in 0..1 :
           MainWorkerFinish(i, err, failed)
    \/ \E i \in DOMAIN main_futures : MainCollect(i)
    \/ MainReturn
    \/ MainRaise
    \/ MainPrintSummary
    \/ MainSignal

SpecMain == InitMain /\ [][NextMain]_vars

\* the main thread and the pool threads keep running; a request returns
\* (the client's timeout and bounded retries); the input is finite
SpecMainFair ==
    /\ SpecMain
    /\ WF_vars(MainStart)
    /\ WF_vars(\E n \in BatchLens : MainStream(n, FALSE))
    /\ WF_vars(MainWorkerStart)
    /\ WF_vars(\E i \in DOMAIN main_futures, err \in BOOLEAN, failed \in 0..1 :
                  MainWorkerFinish(i, err, failed))
    /\ WF_vars(\E i \in DOMAIN main_futures : MainCollect(i))
    /\ WF_vars(MainReturn)
    /\ WF_vars(MainPrintSummary)

(***************************************************************************)
(* Claims about main() (SpecMain).                                         *)
(***************************************************************************)
\* the counts of the batches whose result has reached stats
RECURSIVE MainGatheredTo(_)
MainGatheredTo(k) ==
    IF k = 0
      THEN [total_rows |-> 0, success_count |-> 0, error_count |-> 0]
      ELSE LET g == MainGatheredTo(k - 1)
               fu == main_futures[k]
           IN IF fu.counted
                THEN [total_rows    |-> g.total_rows + fu.s + fu.e,
                      success_count |-> g.success_count + fu.s,
                      error_count   |-> g.error_count + fu.e]
                ELSE g

THRESHOLD_PCT == 99         \* migration_csv_tool/schema.py:22  THRESHOLD = 0.99
MAX_NUMBER_DIGITS == 15     \* schema.py:75  len(clean_digits) > 15
MAX_LOOKUP_LEN == 36        \* migration_csv_tool/schema.py:105  max_len <= 36
MAX_API_LEN == 63           \* migration_csv_tool/schema.py:155  len(col_name) > 63

Val(raw, lower, len, shape, digits) ==
    [raw |-> raw, lower |-> lower, len |-> len, shape |-> shape,
     digits |-> digits]

SampleValues ==
    { Val("True", "true", 4, "text", 0),
      Val("1", "1", 1, "number", 1),
      Val("123", "123", 3, "number", 3),
      Val("$1,000.50", "$1,000.50", 9, "number", 6),
      Val("1234567890123456", "1234567890123456", 16, "number", 16),
      Val("2023-01-01", "2023-01-01", 10, "date", 0),
      Val("a@b.co", "a@b.co", 6, "email", 0),
      Val("https://nexus.example/accounts/0035000000abcde123",
          "https://nexus.example/accounts/0035000000abcde123", 49, "url", 0),
      Val("Maybe", "maybe", 5, "text", 0),
      Val("0035000000abcde123", "0035000000abcde123", 18, "text", 0),
      Val("aaaaaaaaaaaaaaaaaaaaaaaaaaaaaaaaaaaaaaaaaaaaaaaaaa",
          "aaaaaaaaaaaaaaaaaaaaaaaaaaaaaaaaaaaaaaaaaaaaaaaaaa", 50, "text", 0),
      Val("  ", "", 2, "text", 0) }

\* a sample: c[1] copies of one value followed by c[2] copies of another
SampleShapes == {<<0, 1>>, <<1, 0>>, <<2, 1>>, <<99, 1>>, <<98, 2>>,
                 <<95, 5>>, <<90, 10>>}

FieldNames ==
    { <<"q", "t", "y">>,
      <<"f", "a", "x">>,
      <<"o", "w", "n", "e", "r", "_", "i", "d">>,
      <<"f", "a", "x", "_", "i", "d">>,
      <<"x", "_", "i", "d", "_", "c">>,
      <<"x", "_", "i", "d", "_", "y">> }

Contains(s, sub) ==
    \E i \in 1..(Len(s) - Len(sub) + 1) : SubSeq(s, i, i + Len(sub) - 1) = sub

EndsWith(s, sub) ==
    Len(s) >= Len(sub) /\ SubSeq(s, Len(s) - Len(sub) + 1, Len(s)) = sub

\* schema.py:22 / 26: 'phone' in lower_name or 'mobile' ... or 'fax' ...
PhoneLike(name) ==
    \/ Contains(name, <<"p", "h", "o", "n", "e">>)
    \/ Contains(name, <<"m", "o", "b", "i", "l", "e">>)
    \/ Contains(name, <<"f", "a", "x">>)

ID_SUFFIX == <<"_", "i", "d">>

\* the three columns of the file
\*   name,created_date,amount / Acme,2024-01-15,1500 /
\*   Globex,2024-02-01,2300.50 / Initech,N/A,bad
\* as ensure_fields hands them to infer_type, one <<col_name, samples>> each
ScenarioA ==
    { << <<"n", "a", "m", "e">>,
         << Val("Acme", "acme", 4, "text", 0),
            Val("Globex", "globex", 6, "text", 0),
            Val("Initech", "initech", 7, "text", 0) >> >>,
      << <<"c", "r", "e", "a", "t", "e", "d", "_", "d", "a", "t", "e">>,
         << Val("2024-01-15", "2024-01-15", 10, "date", 0),
            Val("2024-02-01", "2024-02-01", 10, "date", 0),
            Val("N/A", "n/a", 3, "text", 0) >> >>,
      << <<"a", "m", "o", "u", "n", "t">>,
         << Val("1500", "1500", 4, "number", 4),
            Val("2300.50", "2300.50", 7, "number", 6),
            Val("bad", "bad", 3, "text", 0) >> >> }

\* clean_values = [v for v in sample_values if v and v.strip()]
CleanValues(samples) ==
    LET NonBlank(v) == v.len > 0 /\ v.lower # ""
    IN SelectSeq(samples, NonBlank)

\* migration_csv_tool/schema.py:42-44
bool_terms == {"true", "false", "1", "0", "yes", "no", "y", "n", "t", "f"}
is_bool(v) == v.lower \in bool_terms

\* schema.py:59-63 / 58-66
is_date(v) == v.shape = "date"

\* schema.py:70-77 / 74-80
is_number(v) == v.digits <= MAX_NUMBER_DIGITS /\ v.shape = "number"

is_email(v) == v.shape = "email"
is_url(v) == v.shape = "url"

\* get_match_rate, migration_csv_tool/schema.py:33-38, as a count
Matches(clean, family) ==
    Cardinality({i \in DOMAIN clean :
        CASE family = "Boolean"  -> is_bool(clean[i])
          [] family = "DateTime" -> is_date(clean[i])
          [] family = "Number"   -> is_number(clean[i])
          [] family = "Email"    -> is_email(clean[i])
          [] family = "Url"      -> is_url(clean[i])})

\* `get_match_rate(f) >= THRESHOLD`: matches / total_count >= 0.99 in
\* floating point is matches * 100 >= 99 * total_count for every sample of
\* a size a list can have
MeetsThreshold_Strict(matches, total) == matches = total
MeetsThreshold_Majority(matches, total) == matches * 2 >= total
MeetsThreshold(matches, total) == matches * 100 >= THRESHOLD_PCT * total

max_len(clean) ==
    IF clean = <<>> THEN 0
    ELSE LET i == CHOOSE j \in DOMAIN clean :
                     \A k \in DOMAIN clean : clean[k].len <= clean[j].len
         IN clean[i].len

Text == [type |-> "LongTextArea", target |-> <<>>]
Typed(t) == [type |-> t, target |-> <<>>]
\* schema.py:106-107 / 111-113: target = field_name[:-3]
LookupTo_FullName(name) == [type |-> "Lookup", target |-> name]
LookupTo(name) == [type |-> "Lookup", target |-> SubSeq(name, 1, Len(name) - 3)]

\* migration_csv_tool/schema.py:10-112
InferTypeCsvTool(samples, name) ==
    LET clean == CleanValues(samples)
        total == Len(clean)
        Rate(family) == MeetsThreshold(Matches(clean, family), total)
    IN IF total = 0 THEN Text
       ELSE IF PhoneLike(name) THEN Text
       ELSE IF Rate("Boolean") THEN Typed("Boolean")
       ELSE IF Rate("DateTime") THEN Typed("DateTime")
       ELSE IF /\ Rate("Number")
               /\ ~EndsWith(name, ID_SUFFIX)
               /\ ~Contains(name, <<"_", "i", "d", "_">>)
               /\ ~EndsWith(name, <<"_", "i", "d", "_", "c">>)
              THEN Typed("Number")
       ELSE IF Rate("Email") THEN Typed("Email")
       ELSE IF Rate("Url") THEN Typed("Url")
       ELSE IF EndsWith(name, ID_SUFFIX)
              THEN (IF max_len(clean) <= MAX_LOOKUP_LEN THEN LookupTo(name)
                                                       ELSE Text)
       ELSE Text

\* migration_tool/schema.py:33-39
bool_sets == {{"true", "false"}, {"1", "0"}, {"yes", "no"}, {"y", "n"},
              {"t", "f"}}

\* migration_tool/schema.py:10-115
InferTypeTool(samples, name) ==
    LET clean == CleanValues(samples)
        unique_lower == {clean[i].lower : i \in DOMAIN clean}
        All(family) == Matches(clean, family) = Len(clean)
    IN IF clean = <<>> THEN Text
       ELSE IF PhoneLike(name) THEN Text
       ELSE IF Contains(name, ID_SUFFIX) /\ ~EndsWith(name, ID_SUFFIX) THEN Text
       ELSE IF \E s \in bool_sets : unique_lower \subseteq s
              THEN Typed("Boolean")
       ELSE IF All("DateTime") THEN Typed("DateTime")
       ELSE IF All("Number") /\ ~EndsWith(name, ID_SUFFIX) THEN Typed("Number")
       ELSE IF All("Email") THEN Typed("Email")
       ELSE IF All("Url") THEN Typed("Url")
       ELSE IF EndsWith(name, ID_SUFFIX) THEN LookupTo(name)
       ELSE Text

MakeSample(v1, v2, shape) ==
    [i \in 1..(shape[1] + shape[2]) |-> IF i <= shape[1] THEN v1 ELSE v2]

InitInfer ==
    /\ inf_impl \in {"csv_tool", "tool"}
    /\ inf_name \in FieldNames \cup {c[1] : c \in ScenarioA}
    /\ inf_samples \in {MakeSample(v1, v2, shape) :
                            v1 \in SampleValues, v2 \in SampleValues,
                            shape \in SampleShapes}
                       \cup {c[2] : c \in ScenarioA}
    /\ inf_pc = "call"
    /\ inf_result = [type |-> "", target |-> <<>>]
    /\ NotInferAtRest

\* ensure_fields, migration_csv_tool/schema.py:164
InferCsvTool ==
    /\ inf_pc = "call"
    /\ inf_impl = "csv_tool"
    /\ inf_result' = InferTypeCsvTool(inf_samples, inf_name)
    /\ inf_pc' = "returned"
    /\ UNCHANGED <<inf_impl, inf_name, inf_samples>>
    /\ UNCHANGED notInferVars

\* ensure_fields, migration_tool/schema.py:159
InferTool ==
    /\ inf_pc = "call"
    /\ inf_impl = "tool"
    /\ inf_result' = InferTypeTool(inf_samples, inf_name)
    /\ inf_pc' = "returned"
    /\ UNCHANGED <<inf_impl, inf_name, inf_samples>>
    /\ UNCHANGED notInferVars

NextInfer == InferCsvTool \/ InferTool

SpecInfer == InitInfer /\ [][NextInfer]_vars

(***************************************************************************)
(* Claims about infer_type                                                 *)
(***************************************************************************)
Families == <<"Boolean", "DateTime", "Number", "Email", "Url">>

InferredByCsvTool == inf_pc = "returned" /\ inf_impl = "csv_tool"

NonBlankSamples == CleanValues(inf_samples)

\* at least 99% of the non-blank sampled values match the family
Reaches99(family) ==
    /\ NonBlankSamples # <<>>
    /\ Matches(NonBlankSamples, family) * 100 >= 99 * Len(NonBlankSamples)

CountsFor(name, family) ==
    /\ Reaches99(family)
    /\ family = "Number" =>
           /\ ~Contains(name, <<"_", "i", "d", "_">>)
           /\ ~EndsWith(name, <<"_", "i", "d", "_", "c">>)

C19_IdNameIsLookupUnlessLong ==
    (InferredByCsvTool /\ EndsWith(inf_name, ID_SUFFIX)) =>
        IF \A i \in DOMAIN inf_samples : inf_samples[i].len <= 36
          THEN /\ inf_result.type = "Lookup"
               /\ inf_result.target \o ID_SUFFIX = inf_name
          ELSE inf_result = Text

\* C19 (amended): for every column name ending in `_id` that holds none of
\* phone, mobile, fax, and every sample with a non-blank value in which none
\* of the boolean, date, email and url families reaches 99%, infer_type of
\* migration_csv_tool returns a Lookup to the name without its `_id` when
\* all non-blank values are at most 36 characters long, also when every
\* value is a number, and LongTextArea when one is longer.
C19_IdNameWithoutFamilyIsLookupUnlessLong ==
    (/\ InferredByCsvTool
     /\ EndsWith(inf_name, ID_SUFFIX)
     /\ ~PhoneLike(inf_name)
     /\ NonBlankSamples # <<>>
     /\ \A f \in {"Boolean", "DateTime", "Email", "Url"} : ~Reaches99(f))
    =>
        IF \A i \in DOMAIN NonBlankSamples : NonBlankSamples[i].len <= 36
          THEN /\ inf_result.type = "Lookup"
               /\ inf_result.target \o ID_SUFFIX = inf_name
          ELSE inf_result = Text

\* owner_id with nothing but numbers came back as a Lookup to owner
C19_Witness ==
    /\ InferredByCsvTool
    /\ inf_name = <<"o", "w", "n", "e", "r", "_", "i", "d">>
    /\ NonBlankSamples # <<>>
    /\ Matches(NonBlankSamples, "Number") = Len(NonBlankSamples)
    /\ inf_result = [type |-> "Lookup", target |-> <<"o", "w", "n", "e", "r">>]

\* exactly pct of 100 non-blank values match the family and the others are
\* strings of no family
ConformingShare(family, pct) ==
    /\ Len(NonBlankSamples) = 100
    /\ Matches(NonBlankSamples, family) = pct
    /\ \A i \in DOMAIN NonBlankSamples :
           \/ Matches(<<NonBlankSamples[i]>>, family) = 1
           \/ \A k \in DOMAIN Families :
                  Matches(<<NonBlankSamples[i]>>, Families[k]) = 0

\* C20: under a name without heuristics, a sample with 95% boolean terms
\* (numbers, dates) and 5% arbitrary strings is inferred as Boolean (Number,
\* DateTime), and a sample with 90% conforming values as LongTextArea, by
\* the infer_type of both tools.
C20_FivePercentTolerated ==
    (/\ inf_pc = "returned"
     /\ ~PhoneLike(inf_name)
     /\ ~Contains(inf_name, ID_SUFFIX))
    =>
        \A f \in {"Boolean", "Number", "DateTime"} :
            /\ ConformingShare(f, 95) => inf_result = Typed(f)
            /\ ConformingShare(f, 90) => inf_result = Text

\* infer_type of migration_csv_tool has returned for this column of ScenarioA
ScenarioColumn(name) ==
    /\ InferredByCsvTool
    /\ inf_name = name
    /\ <<inf_name, inf_samples>> \in ScenarioA

\* C21 (as stated): for the three-row file of scenario A, created_date is
\* inferred as DateTime and amount as LongTextArea.
C21_ScenarioA_DateTimeAndText ==
    /\ ScenarioColumn(<<"c", "r", "e", "a", "t", "e", "d", "_", "d", "a", "t", "e">>)
           => inf_result = Typed("DateTime")
    /\ ScenarioColumn(<<"a", "m", "o", "u", "n", "t">>) => inf_result = Text

\* C21 (amended): for the three-row file of scenario A, created_date and
\* amount are both inferred as LongTextArea: each has one value out of three
\* that is no date, respectively no number, so neither reaches the threshold.
C21_ScenarioA_BothText ==
    \A c \in ScenarioA :
        (ScenarioColumn(c[1]) /\ c[1] # <<"n", "a", "m", "e">>)
            => /\ Matches(NonBlankSamples, "DateTime") + Matches(NonBlankSamples, "Number") = 2
               /\ Len(NonBlankSamples) = 3
               /\ inf_result = Text

\* created_date of scenario A came back as LongTextArea
C21_Witness ==
    /\ ScenarioColumn(<<"c", "r", "e", "a", "t", "e", "d", "_", "d", "a", "t", "e">>)
    /\ inf_result.type = "LongTextArea"

(***************************************************************************)
(* Distributed sampling of _process_csv (migration_tool/importer.py:       *)
(* 105-166) and process_file (migration_csv_tool/importer.py:13-94); the   *)
(* two have the same statements, line numbers are those of migration_tool. *)
(*                                                                         *)
(* The file is the byte length of each of its lines, the header first; a   *)
(* sampled row is the number of its line.  The code takes 20 chunks and    *)
(* seeks only in files of more than 50000 bytes; the model scales both     *)
(* down.  With NUM_CHUNKS a power of two, pct = i / NUM_CHUNKS and         *)
(* int(total_bytes * pct) are exact.                                       *)
(***************************************************************************)
NUM_CHUNKS == 4             \* importer.py:141  NUM_CHUNKS = 20
SEEK_THRESHOLD == 6         \* importer.py:149  total_bytes > 50000

SampleFiles == SeqsUpTo(1..MaxLineBytes, MaxSampleRows + 1)

RECURSIVE BytesUpTo(_, _)
BytesUpTo(file, k) == IF k = 0 THEN 0 ELSE file[k] + BytesUpTo(file, k - 1)

\* f.seek(0, 2); total_bytes = f.tell()
TotalBytes(file) == BytesUpTo(file, Len(file))

\* importer.py:144
ChunkSize(limit) ==
    IF limit \div NUM_CHUNKS >= 1 THEN limit \div NUM_CHUNKS ELSE 1

\* importer.py:150-152: f.seek(target_pos); f.readline() leaves the file at
\* the line after the one that holds byte target_pos
LineAfterSeek(file, i) ==
    LET target_pos == (TotalBytes(file) * i) \div NUM_CHUNKS
        holding == CHOOSE k \in DOMAIN file :
                       BytesUpTo(file, k - 1) <= target_pos
                           /\ target_pos < BytesUpTo(file, k)
    IN holding + 1

\* importer.py:161 and 163: `if len(sample_rows) >= limit: break`
LimitReached_Never(rows, limit) == FALSE
LimitReached(rows, limit) == Len(rows) >= limit

InitSample ==
    /\ smp_file \in SampleFiles
    /\ smp_limit \in 0..MaxLimit
    /\ smp_pc = "open"
    /\ smp_chunk = 0
    /\ smp_in_chunk = 0
    /\ smp_next = 1
    /\ smp_rows = <<>>
    /\ smp_err = FALSE
    /\ NotSampleAtRest

\* importer.py:105-138: the header is read; an empty file returns; with
\* limit <= 0 the whole file is read; else the file is put after its header
SampleOpen ==
    /\ smp_pc = "open"
    /\ IF smp_file = <<>>
         THEN /\ smp_pc' = "returned"
              /\ UNCHANGED <<smp_next, smp_rows>>
         ELSE IF smp_limit <= 0
           THEN /\ smp_rows' = [k \in 1..(Len(smp_file) - 1) |-> k + 1]
                /\ smp_next' = Len(smp_file) + 1
                /\ smp_pc' = "done"
           ELSE /\ smp_next' = 2
                /\ smp_pc' = "chunk"
                /\ UNCHANGED smp_rows
    /\ UNCHANGED <<smp_file, smp_limit, smp_chunk, smp_in_chunk, smp_err>>
    /\ UNCHANGED notSampleVars

\* importer.py:146-155: the top of one iteration of the chunk loop
SampleChunk ==
    /\ smp_pc = "chunk"
    /\ smp_next' = IF smp_chunk # 0 /\ TotalBytes(smp_file) > SEEK_THRESHOLD
                     THEN LineAfterSeek(smp_file, smp_chunk)
                     ELSE smp_next
    /\ smp_in_chunk' = 0
    /\ smp_pc' = "read"
    /\ UNCHANGED <<smp_file, smp_limit, smp_chunk, smp_rows, smp_err>>
    /\ UNCHANGED notSampleVars

\* importer.py:157-163: one iteration of the row loop, and, when the row
\* loop ends, the end of the chunk's iteration
SampleRead ==
    /\ smp_pc = "read"
    /\ LET more  == smp_in_chunk < ChunkSize(smp_limit)
           eof   == smp_next > Len(smp_file)
           rows1 == IF more /\ ~eof THEN Append(smp_rows, smp_next)
                                    ELSE smp_rows
           inner == more /\ ~eof /\ ~LimitReached(rows1, smp_limit)
       IN /\ smp_rows' = rows1
          /\ smp_next' = IF more /\ ~eof THEN smp_next + 1 ELSE smp_next
          /\ IF inner
               THEN /\ smp_in_chunk' = smp_in_chunk + 1
                    /\ UNCHANGED <<smp_pc, smp_chunk>>
               ELSE /\ smp_in_chunk' = 0
                    /\ IF LimitReached(rows1, smp_limit)
                         THEN smp_pc' = "done" /\ UNCHANGED smp_chunk
                         ELSE /\ smp_chunk' = smp_chunk + 1
                              /\ smp_pc' = IF smp_chunk + 1 < NUM_CHUNKS
                                             THEN "chunk" ELSE "done"
    /\ UNCHANGED <<smp_file, smp_limit, smp_err>>
    /\ UNCHANGED notSampleVars

\* importer.py:165-166: an exception of the reader (csv.Error) ends the
\* sampling with the rows collected so far
SampleError ==
    /\ smp_pc = "read"
    /\ smp_next <= Len(smp_file)
    /\ smp_err' = TRUE
    /\ smp_pc' = "done"
    /\ UNCHANGED <<smp_file, smp_limit, smp_chunk, smp_in_chunk, smp_next,
                   smp_rows>>
    /\ UNCHANGED notSampleVars

NextSample == SampleOpen \/ SampleChunk \/ SampleRead \/ SampleError

SpecSample == InitSample /\ [][NextSample]_vars

(***************************************************************************)
(* Claims about the sampling                                               *)
(***************************************************************************)
SampledLines == {smp_rows[k] : k \in DOMAIN smp_rows}

\* C22: with limit > 0 the sample never holds more than limit rows; a row
\* is added only while fewer than limit rows are held and a chunk is left,
\* and a sampling that ends without exception has limit rows or has gone
\* through all chunks.
C22_SampleBoundedByLimit ==
    /\ [](smp_limit > 0 => Len(smp_rows) <= smp_limit)
    /\ []((smp_limit > 0 /\ smp_pc = "done" /\ ~smp_err)
             => (Len(smp_rows) = smp_limit \/ smp_chunk = NUM_CHUNKS))
    /\ [][(smp_limit > 0 /\ Len(smp_rows') > Len(smp_rows))
             => (Len(smp_rows) < smp_limit /\ smp_chunk < NUM_CHUNKS)]_vars

\* the sampling stopped at limit rows in a file that has more
C22_Witness ==
    /\ smp_pc = "done"
    /\ smp_limit > 0
    /\ Len(smp_rows) = smp_limit
    /\ Len(smp_file) - 1 > smp_limit
    /\ smp_chunk < NUM_CHUNKS - 1

\* C23: with limit > 0 and fewer data rows than limit, a sampling that ends
\* without exception holds every data row of the file.
C23_SmallFileIsFullScan ==
    (/\ smp_pc = "done"
     /\ ~smp_err
     /\ smp_limit > 0
     /\ Len(smp_file) - 1 < smp_limit)
    => \A k \in 2..Len(smp_file) : k \in SampledLines

\* C24: for an empty source file and for a header-only one (no data row),
\* _process_csv issues no object-creation, field-creation or bulk-insert
\* request.
C24_EmptySourceIsSkipped ==
    (csv_pc # "rest" /\ csv_file = <<>>) =>
        \A k \in DOMAIN csv_log :
            csv_log[k] \notin {"POST_OBJ", "POST_FIELD", "POST_BULK"}

\* C25: every chunk that was submitted to the pool before shutdown was
\* requested is sent to the backend when the pool completes it, and each of
\* its rows is counted as a success or as a failure.
C25_SubmittedBeforeShutdownIsSent ==
    \A i \in DOMAIN futures :
        (futures[i].st = "done"
            /\ (shutdown_requested => i <= submittedAtStop))
        => /\ futures[i].sent
           /\ futures[i].s + futures[i].e = Len(futures[i].rows)

\* C28: in migration_tool/client.py no attempt of a worker, in this or in a
\* later request, runs on a connection on which an earlier attempt of the
\* worker failed (connection error, 5xx or 429); the first attempt of the
\* worker creates its connection.
C28_NoAttemptOnFailedConnection ==
    [][(client = "tool" /\ Len(usedConn') = Len(usedConn) + 1)
          => /\ Last(usedConn') \notin failedConns
             /\ (conn = 0 /\ reqNo = 1 /\ attempt = 0) => Last(usedConn') = 1]_vars

\* C27: a bulk-insert request of an importer is issued only after its
\* ensure_object has returned True and after every field-creation call that
\* its ensure_fields started, one for each column and with the Lookup
\* fallbacks, has returned; no field-creation request of the importer
\* comes after it.
C27_BulkAfterReconciling ==
    \A b \in sch_calls :
        b.op = "send_batch" =>
            /\ \E o \in sch_calls :
                   /\ o.op = "ensure_object" /\ o.p = b.p
                   /\ o.ret = "True" /\ o.end <= b.start
            /\ \A c \in SchColumns :
                   \E f \in sch_calls :
                       /\ f.op = "create_field_safe" /\ f.p = b.p /\ f.api = c
                       /\ f.end <= b.start
            /\ \A f \in sch_calls :
                   (f.op = "create_field_safe" /\ f.p = b.p) => f.end <= b.start
            /\ \A t \in TasksOf(b.p) : sch_task[t].pc = "done"

\* an importer issued its bulk insert after a Lookup field of it had been
\* rejected and created again as LongTextArea
C27_Witness ==
    \E b \in sch_calls, f \in sch_calls :
        /\ b.op = "send_batch" /\ f.op = "create_field_safe" /\ f.p = b.p
        /\ f.type = "Lookup" /\ Len(f.reqs) = 2
        /\ f.end <= b.start

RECURSIVE SubmittedRecords(_)
SubmittedRecords(k) ==
    IF k = 0 THEN 0 ELSE csv_futures[k].n + SubmittedRecords(k - 1)

\* C26: when _process_csv has returned after the streaming, no batch it
\* submitted is queued or in flight, and each submitted batch has been
\* counted once: the statistics hold the records of all submitted batches,
\* each record as a success or as an error; while a batch is not completed
\* _process_csv has not returned.
C26_ReturnOnlyAfterDrain ==
    /\ (csv_pc = "done") =>
           /\ \A i \in DOMAIN csv_futures : csv_futures[i].st = "done"
           /\ csv_batch = <<>>
           /\ stats.total_rows = SubmittedRecords(Len(csv_futures))
           /\ stats.success_count + stats.error_count = stats.total_rows
    /\ (\E i \in DOMAIN csv_futures : csv_futures[i].st # "done")
           => csv_pc \in {"stream", "flush", "drain"}

\* _process_csv has returned after two batches, one of them submitted when
\* the reader was exhausted
C26_Witness ==
    /\ csv_pc = "done"
    /\ Len(csv_futures) = 2
    /\ csv_futures[1].n = 1 /\ csv_futures[2].n = 1
    /\ stats.total_rows = 2

\* C29: every record of a submitted batch carries a non-empty value under
\* 'name', supplied by the row or synthesised from id, title, subject, email
\* or as a placeholder.
C29_EveryRecordHasName ==
    \A i \in DOMAIN csv_futures :
        \A k \in DOMAIN csv_futures[i].records :
            /\ "name" \in DOMAIN csv_futures[i].records[k]
            /\ csv_futures[i].records[k]["name"] # ""

(***************************************************************************)
(* SpecKeys: migration_csv_tool, SchemaManager.ensure_fields and the       *)
(* records process_file builds, on files whose headers are about as long   *)
(* as an api name may be                                                   *)
(***************************************************************************)

\* the headers a column can have: a short one, and long ones of as many
\* letters as an api name may have and of one more, each as it is and
\* written with a capital and surrounding blanks
KeyHeaders ==
    LET Letters(n) == [i \in 1..n |-> "a"]
        Plain == {<<"x", "_", "i", "d">>}
                     \cup {Letters(n) : n \in {MAX_API_LEN, MAX_API_LEN + 1}}
        Decorated(h) ==
            <<" ">> \o [i \in DOMAIN h |->
                           IF i # 1 THEN h[i]
                           ELSE IF h[i] = "a" THEN "A" ELSE "X"] \o <<" ">>
    IN Plain \cup {Decorated(h) : h \in Plain}

\* what a column holds: the values of its sampled rows, and its cell in the
\* data row
ColumnKinds ==
    { [samples |-> << Val("123", "123", 3, "number", 3),
                      Val("$1,000.50", "$1,000.50", 9, "number", 6) >>,
       cell |-> "$5"],
      [samples |-> << Val("2023-01-01", "2023-01-01", 10, "date", 0),
                      Val("2023-01-01", "2023-01-01", 10, "date", 0) >>,
       cell |-> "2023-01-01"],
      [samples |-> << Val("Maybe", "maybe", 5, "text", 0),
                      Val("a@b.co", "a@b.co", 6, "email", 0) >>,
       cell |-> "Acme"] }

\* str.strip()
RECURSIVE HeaderStrip(_)
HeaderStrip(h) ==
    IF h = <<>> THEN h
    ELSE IF Head(h) = " " THEN HeaderStrip(Tail(h))
    ELSE IF h[Len(h)] = " " THEN HeaderStrip(SubSeq(h, 1, Len(h) - 1))
    ELSE h

\* header.lower().strip(): ensure_fields line 149, process_file line 135;
\* str.lower() on the characters of KeyHeaders
ColName(h) ==
    LET LowerChar(c) == CASE c = "A" -> "a" [] c = "X" -> "x" [] OTHER -> c
    IN HeaderStrip([i \in DOMAIN h |-> LowerChar(h[i])])

\* schema.py:154-160: the api name of the field of a header
ApiName(h) ==
    IF Len(ColName(h)) > MAX_API_LEN THEN SubSeq(ColName(h), 1, MAX_API_LEN)
                                     ELSE ColName(h)

\* schema.py:139-146: columns[h], the sampled cells of every column whose
\* header is h, row by row
ColumnSamples(h) ==
    LET cols == {i \in DOMAIN key_headers : key_headers[i] = h}
        n == Cardinality(cols)
        Nth(k) == CHOOSE i \in cols : Cardinality({j \in cols : j < i}) = k - 1
        rows == Len(key_kinds[Nth(1)].samples)
    IN [p \in 1..(rows * n) |->
           key_kinds[Nth(((p - 1) % n) + 1)].samples[((p - 1) \div n) + 1]]

\* schema.py:148-166: fields_to_create.append((col_name, type_name, header,
\* extra)) for the first n headers; a header that is blank makes no field
RECURSIVE FieldsToCreate(_)
FieldsToCreate(n) ==
    IF n = 0 THEN <<>>
    ELSE IF ColName(key_headers[n]) # <<>>
           THEN Append(FieldsToCreate(n - 1),
                       [api_name |-> ApiName(key_headers[n]),
                        type |-> InferTypeCsvTool(
                                     ColumnSamples(key_headers[n]),
                                     ApiName(key_headers[n])).type,
                        label |-> key_headers[n]])
           ELSE FieldsToCreate(n - 1)

\* field_types[col_name] = type_name, in the order of fields_to_create: a
\* later column of the same name wins
KeyFieldTypes(todo) ==
    [c \in {todo[i].api_name : i \in DOMAIN todo} |->
        LET i == CHOOSE j \in DOMAIN todo :
                   /\ todo[j].api_name = c
                   /\ \A k \in DOMAIN todo : todo[k].api_name = c => k <= j
        IN todo[i].type]

InitKeys ==
    /\ \E n \in 1..MaxColumns :
          /\ key_headers \in [1..n -> KeyHeaders]
          /\ key_kinds \in [1..n -> ColumnKinds]
    /\ key_pc = "ensure"
    /\ key_typed_map = <<>>
    /\ key_todo = <<>>
    /\ key_done = {}
    /\ key_requests = {}
    /\ key_batch = <<>>
    /\ key_sent = <<>>
    /\ NotKeyAtRest

\* ensure_fields, schema.py:132-166: the loop over the headers
KeyEnsureFields ==
    /\ key_pc = "ensure"
    /\ key_todo' = FieldsToCreate(Len(key_headers))
    /\ key_typed_map' = KeyFieldTypes(key_todo')
    /\ key_pc' = "create"
    /\ UNCHANGED <<key_headers, key_kinds, key_done, key_requests, key_batch,
                   key_sent>>
    /\ UNCHANGED notKeyVars

\* _create_field_safe, schema.py:178-187, on a worker of the pool: the POST
\* of the field, and the POST of a text field when that of a lookup failed
KeyCreateField(i, err) ==
    /\ key_pc = "create"
    /\ i \in DOMAIN key_todo /\ i \notin key_done
    /\ key_requests' = key_requests \cup {key_todo[i]} \cup
           (IF err /\ key_todo[i].type = "Lookup"
              THEN {[key_todo[i] EXCEPT !.type = "LongTextArea"]}
              ELSE {})
    /\ key_done' = key_done \cup {i}
    /\ UNCHANGED <<key_headers, key_kinds, key_pc, key_typed_map, key_todo,
                   key_batch, key_sent>>
    /\ UNCHANGED notKeyVars

\* concurrent.futures.wait(futures); return field_types (schema.py:173-176)
KeyFieldsReturn ==
    /\ key_pc = "create"
    /\ key_done = DOMAIN key_todo
    /\ key_pc' = "stream"
    /\ UNCHANGED <<key_headers, key_kinds, key_typed_map, key_todo, key_done,
                   key_requests, key_batch, key_sent>>
    /\ UNCHANGED notKeyVars

\* process_file, importer.py:131-149: the cells of the row that are sent
SentColumns ==
    {i \in DOMAIN key_headers :
        ColName(key_headers[i]) # <<>> /\ key_kinds[i].cell # ""}

\* record[col] = val, normalised when col is a key of typed_map
KeyRecord ==
    [c \in {ColName(key_headers[i]) : i \in SentColumns} |->
        LET i == CHOOSE j \in SentColumns :
                   /\ ColName(key_headers[j]) = c
                   /\ \A k \in SentColumns :
                          ColName(key_headers[k]) = c => k <= j
        IN IF c \in DOMAIN key_typed_map
             THEN NormalizeCell(key_typed_map[c], key_kinds[i].cell)
             ELSE key_kinds[i].cell]

\* importer.py:152-158: no header of KeyHeaders is name, id, title, subject
\* or email, so the name is the placeholder
KeyWithName(rec, batchLen) ==
    LET name == <<"n", "a", "m", "e">>
    IN [k \in DOMAIN rec \cup {name} |->
           IF k = name THEN RecordName(batchLen + 1) ELSE rec[k]]

\* process_file, importer.py:129-166: one row of the reader
KeyReadRow ==
    /\ key_pc = "stream"
    /\ key_batch' = Append(key_batch, KeyWithName(KeyRecord, Len(key_batch)))
    /\ key_pc' = "flush"
    /\ UNCHANGED <<key_headers, key_kinds, key_typed_map, key_todo, key_done,
                   key_requests, key_sent>>
    /\ UNCHANGED notKeyVars

\* the batch left when the reader is exhausted is submitted
KeySendBatch ==
    /\ key_pc = "flush"
    /\ key_sent' = key_sent \o key_batch
    /\ key_batch' = <<>>
    /\ key_pc' = "done"
    /\ UNCHANGED <<key_headers, key_kinds, key_typed_map, key_todo, key_done,
                   key_requests>>
    /\ UNCHANGED notKeyVars

NextKeys ==
    \/ KeyEnsureFields
    \/ \E i \in 1..MaxColumns, err \in BOOLEAN : KeyCreateField(i, err)
    \/ KeyFieldsReturn
    \/ KeyReadRow
    \/ KeySendBatch

SpecKeys == InitKeys /\ [][NextKeys]_vars

\* C30: for every column of the file, the record sent for a row holds the
\* cell under the api_name of the create-field request ensure_fields issued
\* for the header of that column, normalised according to the type of that
\* request. (Of two columns of one name the later one is sent.)
C30_KeyIsApiNameOfField ==
    \A r \in DOMAIN key_sent : \A i \in SentColumns :
        (\A j \in SentColumns :
            ColName(key_headers[j]) = ColName(key_headers[i]) => j <= i) =>
            \E req \in key_requests :
                /\ req.label = key_headers[i]
                /\ req.api_name \in DOMAIN key_sent[r]
                /\ key_sent[r][req.api_name] =
                       NormalizeCell(req.type, key_kinds[i].cell)

====
